---- MODULE Spec2Model ----
(***************************************************************************)
(* Hashed-key cache with value obfuscation, key rotation and a serialized  *)
(* write queue (snippets/cache.js, snippets/queue.js, snippets/common.js). *)
(*                                                                         *)
(* JavaScript runs one job at a time.  A step of this model is one job:    *)
(* a synchronous call made by a caller, one microtask (the continuation of *)
(* an await), or one timer callback.  Microtasks are kept in the FIFO mq;  *)
(* a timer callback runs only when mq is empty.                            *)
(***************************************************************************)
EXTENDS Integers, Sequences, FiniteSets, TLC

\* ------------------------------------------------------------------------
\* Bounds of the model
\* ------------------------------------------------------------------------
MaxWrites == 2
MaxReads == 1
MaxRotations == 2
MaxEnqueues == 3
PQCapacity == 2
MaxNum == 11
MaxItems == 5
MaxPeriodChanges == 2
MaxHooks == 2
MaxEncodes == 1
MaxTasks == 4
MaxBatchSize == 3
MaxPromises == 3
MaxConcurrency == 2
MaxListeners == 2
MaxExecutes == 2

\* ------------------------------------------------------------------------
\* JavaScript values.  Every value is a record with its typeof tag t.
\* A string is a record too: plain text (field s, a sequence of characters)
\* or the text produced by Obfuscator.encode (field enc).
\* ------------------------------------------------------------------------
Str(cs) == [t |-> "string", s |-> cs]
Num(n) == [t |-> "number", n |-> n]
NaN == [t |-> "number", nan |-> TRUE]
Big(n) == [t |-> "bigint", n |-> n]
Bool(b) == [t |-> "boolean", b |-> b]
Arr(a) == [t |-> "object", arr |-> a]
Obj(k, n) == [t |-> "object", k |-> k, n |-> n]
Null == [t |-> "object", null |-> TRUE]
\* An object that refers to itself: JSON.stringify throws a TypeError on it
Circular == [t |-> "object", circular |-> TRUE]
Undefined == [t |-> "undefined"]
Function == [t |-> "function"]
Symbol == [t |-> "symbol"]
Thrown(msg) == [t |-> "thrown", msg |-> msg]

IsThrown(v) == v.t = "thrown"
IsArray(v) == v.t = "object" /\ "arr" \in DOMAIN v
IsPlainString(v) == v.t = "string" /\ "s" \in DOMAIN v
IsEncoded(v) == v.t = "string" /\ "enc" \in DOMAIN v

Digit == <<"0", "1", "2", "3", "4", "5", "6", "7", "8", "9">>

RECURSIVE Digits(_)
Digits(n) == IF n < 10 THEN <<Digit[n + 1]>> ELSE Digits(n \div 10) \o <<Digit[(n % 10) + 1]>>

\* Number.prototype.toString / BigInt.prototype.toString on integers
IntToString(n) == IF n < 0 THEN <<"-">> \o Digits(0 - n) ELSE Digits(n)

DigitValue(c) == CHOOSE d \in 0..9 : Digit[d + 1] = c
IsDigit(c) == \E d \in 1..10 : Digit[d] = c
AllDigits(cs) == Len(cs) > 0 /\ \A i \in 1..Len(cs) : IsDigit(cs[i])
IsDecimal(cs) == IF Len(cs) > 0 /\ cs[1] = "-" THEN AllDigits(Tail(cs)) ELSE AllDigits(cs)

RECURSIVE DigitsValue(_)
DigitsValue(cs) == IF Len(cs) = 0 THEN 0 ELSE DigitsValue(SubSeq(cs, 1, Len(cs) - 1)) * 10 + DigitValue(cs[Len(cs)])

DecimalValue(cs) == IF cs[1] = "-" THEN 0 - DigitsValue(Tail(cs)) ELSE DigitsValue(cs)

\* Number(string) on plain text: decimal literals, "" is 0, anything else NaN
JSNumber(cs) == IF Len(cs) = 0 THEN Num(0) ELSE IF IsDecimal(cs) THEN Num(DecimalValue(cs)) ELSE NaN

\* String.prototype.toLowerCase on the characters the model uses
LowerOf(c) == CASE c = "T" -> "t" [] c = "R" -> "r" [] c = "U" -> "u" [] c = "E" -> "e" [] OTHER -> c
toLowerCase(cs) == [i \in 1..Len(cs) |-> LowerOf(cs[i])]

RECURSIVE JoinInts(_)
JoinInts(a) == IF Len(a) = 0 THEN <<>> ELSE IF Len(a) = 1 THEN IntToString(a[1]) ELSE IntToString(a[1]) \o <<",">> \o JoinInts(Tail(a))

\* JSON.stringify of null, an array of integers, or an object {"k": n}
JSONstringify(v) ==
    IF IsArray(v) THEN <<"[">> \o JoinInts(v.arr) \o <<"]">>
    ELSE IF "null" \in DOMAIN v THEN <<"n", "u", "l", "l">>
    ELSE <<"{", "\"">> \o v.k \o <<"\"", ":">> \o IntToString(v.n) \o <<"}">>

IndexOf(cs, c) == IF \E i \in 1..Len(cs) : cs[i] = c THEN CHOOSE i \in 1..Len(cs) : cs[i] = c /\ \A j \in 1..(i - 1) : cs[j] # c ELSE 0

RECURSIVE ParseInts(_)
ParseInts(cs) ==
    LET i == IndexOf(cs, ",")
    IN IF i = 0 THEN [ok |-> IsDecimal(cs), xs |-> IF IsDecimal(cs) THEN <<DecimalValue(cs)>> ELSE <<>>]
       ELSE LET head == SubSeq(cs, 1, i - 1)
                rest == ParseInts(SubSeq(cs, i + 1, Len(cs)))
            IN IF IsDecimal(head) /\ rest.ok THEN [ok |-> TRUE, xs |-> <<DecimalValue(head)>> \o rest.xs] ELSE [ok |-> FALSE, xs |-> <<>>]

\* JSON.parse of the texts JSONstringify produces; anything else is a SyntaxError
JSONparse(cs) ==
    LET n == Len(cs)
        bad == Thrown("SyntaxError")
    IN IF cs = <<"n", "u", "l", "l">> THEN Null
       ELSE IF n >= 2 /\ cs[1] = "[" /\ cs[n] = "]" THEN
            (IF n = 2 THEN Arr(<<>>)
             ELSE LET r == ParseInts(SubSeq(cs, 2, n - 1))
                  IN IF r.ok THEN Arr(r.xs) ELSE bad)
       ELSE IF n >= 6 /\ cs[1] = "{" /\ cs[2] = "\"" /\ cs[n] = "}" THEN
            (LET body == SubSeq(cs, 3, n - 1)
                 q == IndexOf(body, "\"")
             IN IF q = 0 \/ q + 1 > Len(body) \/ body[q + 1] # ":" THEN bad
                ELSE LET num == SubSeq(body, q + 2, Len(body))
                     IN IF IsDecimal(num) THEN Obj(SubSeq(body, 1, q - 1), DecimalValue(num)) ELSE bad)
       ELSE bad

\* ------------------------------------------------------------------------
\* Obfuscator: conversion to and from text, encode, decode
\* ------------------------------------------------------------------------
\* Array.isArray(value) ? "array" : typeof value
TypeTag(value) == IF IsArray(value) THEN "array" ELSE value.t

NumberToString(v) == IF "nan" \in DOMAIN v THEN <<"N", "a", "N">> ELSE IntToString(v.n)
BooleanToString(v) == IF v.b THEN <<"t", "r", "u", "e">> ELSE <<"f", "a", "l", "s", "e">>

converttostring(value) ==
    LET type == TypeTag(value)
    IN CASE type = "number" -> [value |-> Str(NumberToString(value)), type |-> type]
         [] type = "boolean" -> [value |-> Str(BooleanToString(value)), type |-> type]
         [] type = "bigint" -> [value |-> Str(IntToString(value.n)), type |-> type]
         [] type \in {"object", "array"} ->
                (IF "circular" \in DOMAIN value THEN [value |-> Thrown("TypeError"), type |-> type]
                 ELSE [value |-> Str(JSONstringify(value)), type |-> type])
         [] OTHER -> [value |-> value, type |-> type]

\* BigInt(string): a SyntaxError unless the text is an integer literal
BigIntOf(string) ==
    IF IsPlainString(string) /\ Len(string.s) = 0 THEN Big(0)
    ELSE IF IsPlainString(string) /\ IsDecimal(string.s) THEN Big(DecimalValue(string.s))
    ELSE Thrown("SyntaxError")

IsTrueText(string) == IsPlainString(string) /\ toLowerCase(string.s) = <<"t", "r", "u", "e">>

\* The switch of toType.  The "bigint" case has no break: after BigInt(string)
\* control falls through into the "boolean" case, which overwrites the result.
toType(string, type) ==
    CASE type = "number" -> (IF IsPlainString(string) THEN JSNumber(string.s) ELSE NaN)
      [] type = "bigint" -> (IF IsThrown(BigIntOf(string)) THEN BigIntOf(string) ELSE Bool(IsTrueText(string)))
      [] type = "boolean" -> Bool(IsTrueText(string))
      [] type \in {"object", "array"} -> (IF IsPlainString(string) THEN JSONparse(string.s) ELSE Thrown("SyntaxError"))
      [] OTHER -> string

\* The text iv:ciphertext:type.  The ciphertext is AES-256-CBC of the text pt
\* under the key; it is kept as the pair (key, pt).  The random iv travels in
\* the text and is given back to the decipher, so it is left out.
encode(value, key) ==
    LET stringValue == converttostring(value)
    IN IF stringValue.value.t = "string"
       THEN [t |-> "string", enc |-> [key |-> key, pt |-> stringValue.value, type |-> stringValue.type]]
       ELSE Undefined

RECURSIVE CountOf(_, _)
CountOf(cs, c) == IF Len(cs) = 0 THEN 0 ELSE (IF cs[1] = c THEN 1 ELSE 0) + CountOf(Tail(cs), c)

\* decode: a value that is no string has no split; a text without exactly three
\* parts is rejected; plain text with three parts has no 16-byte iv; a
\* ciphertext made under another key fails the padding check of final().
decode(string, key) ==
    IF string.t # "string" THEN Thrown("TypeError")
    ELSE IF IsPlainString(string) THEN
         (IF CountOf(string.s, ":") # 2 THEN Thrown("Invalid string to decode.") ELSE Thrown("Invalid initialization vector"))
    ELSE IF string.enc.key # key THEN Thrown("bad decrypt")
    ELSE toType(string.enc.pt, string.enc.type)

\* ------------------------------------------------------------------------
\* Cache: hashed keys, checksums, the entry map
\* ------------------------------------------------------------------------
\* parseInt(process.env.CACHE_HASH_KEY_INITALIZER)
CACHE_HASH_KEY_INITALIZER == 5381

\* The cache keys of the model: "a", " a" (same hashed key as "a", another
\* checksum) and "b".
KeyA == <<"a">>
KeySpaceA == <<" ", "a">>
KeyB == <<"b">>
Keys == {KeyA, KeySpaceA, KeyB}

charCodeAt(c) == CASE c = "a" -> 97 [] c = "b" -> 98 [] c = " " -> 32 [] OTHER -> 63

\* key.replace(/\s/g, '')
RECURSIVE StripSpaces(_)
StripSpaces(cs) == IF Len(cs) = 0 THEN <<>> ELSE IF cs[1] = " " THEN StripSpaces(Tail(cs)) ELSE <<cs[1]>> \o StripSpaces(Tail(cs))

\* hash << 5 on the 32-bit two's complement of hash
ShiftLeft5(x) ==
    LET low == x % 134217728
    IN IF low < 67108864 THEN low * 32 ELSE ((low - 67108864) * 32 - 2147483647) - 1

RECURSIVE HashLoop(_, _)
HashLoop(hash, cs) == IF Len(cs) = 0 THEN hash ELSE HashLoop(ShiftLeft5(hash) + hash + charCodeAt(cs[1]), Tail(cs))

createHashKey(key) == HashLoop(CACHE_HASH_KEY_INITALIZER, StripSpaces(key))

\* SHA-256 of the untouched key, hex: distinct keys have distinct digests
createCheckSum(key) == <<"sha256">> \o key

\* The Map data (and temp): the entries in insertion order.  An entry is
\* [hKey, value, expiresOn, isObfusacated, type, checksum]; the field written
\* is history only: the value the caller passed to the write that made it.
MapHas(map, hKey) == \E i \in 1..Len(map) : map[i].hKey = hKey
MapIndex(map, hKey) == CHOOSE i \in 1..Len(map) : map[i].hKey = hKey
MapGet(map, hKey) == map[MapIndex(map, hKey)]
MapSet(map, entry) ==
    IF MapHas(map, entry.hKey) THEN [map EXCEPT ![MapIndex(map, entry.hKey)] = entry] ELSE Append(map, entry)
\* A Map whose delete removes nothing
MapDeleteNothing(map, hKey) == map

MapDelete(map, hKey) ==
    IF MapHas(map, hKey)
    THEN LET i == MapIndex(map, hKey) IN SubSeq(map, 1, i - 1) \o SubSeq(map, i + 1, Len(map))
    ELSE map

\* A validation that accepts every checksum
validateKeyCheckSumIgnored(map, key, current_checksum) == TRUE

validateKeyCheckSum(map, key, current_checksum) ==
    IF ~MapHas(map, key) THEN TRUE ELSE MapGet(map, key).checksum = current_checksum

\* ------------------------------------------------------------------------
\* Queue: the circular buffer.  items holds the slots assigned so far.
\* ------------------------------------------------------------------------
NewQueue(capacity) ==
    [capacity |-> capacity, items |-> <<>>, front |-> 0, size |-> 0, rear |-> capacity - 1, isExecuting |-> FALSE]

ArrayPut(items, i, x) == IF i \in DOMAIN items THEN [items EXCEPT ![i] = x] ELSE items @@ (i :> x)

isEmpty(q) == q.size = 0

\* A queue that never reports itself full
isFullNever(q) == FALSE

isFull(q) == q.size = q.capacity

\* Queue.enqueue past the isFull check
QueuePush(q, item) ==
    LET rear == (q.rear + 1) % q.capacity
    IN [q EXCEPT !.rear = rear, !.items = ArrayPut(q.items, rear, item), !.size = q.size + 1]

\* The item at the rear index
QueueRear(q) == q.items[q.rear]

\* Queue.dequeue past the isEmpty check: the item taken and the queue left
QueueFront(q) == q.items[q.front]
QueuePop(q) ==
    [q EXCEPT !.items = ArrayPut(q.items, q.front, Undefined), !.front = (q.front + 1) % q.capacity, !.size = q.size - 1]

\* ------------------------------------------------------------------------
\* State
\* ------------------------------------------------------------------------
VARIABLES
    data,           \* Cache.#data
    temp,           \* Cache.#temp
    isPaused,       \* Cache.#isPaused
    fideliusCharm,  \* Obfuscator.#fideliusCharm: the active key (keys are numbered as they are drawn)
    rotatorTimer,   \* the pending timers set by Obfuscator.#rotator, each with the number of the #rotator call that set it
    defaultKeyRotationDuration,  \* Obfuscator.#defaultKeyRotationDuration
    existingRotatorTimerObject,  \* Obfuscator.#existingRotatorTimerObject: what setUnboundedTimeout returned last
    beforeHandlers, \* Obfuscator.beforeHandlers: for each event the handlers in the order they were registered
    afterHandlers,  \* Obfuscator.afterHandlers
    process,        \* the frame of the running call of a function of Process: its arguments, locals and position
    executor,       \* an Executor: the promises handed out, one per listener on its event, and the callbacks running
    queue,          \* the ProcessQueue (Cache.#writeQueue): capacity, items, front, rear, size, isExecuting
    timers,         \* pending setTimeout callbacks: expiry of an entry, a sleep of the pause gate
    mq,             \* the microtask queue: continuations of awaits, oldest first
    awaiting,       \* drain loops suspended on a promise that is not settled yet
    pc,             \* where the running synchronous code stands; "idle" between jobs
    out,            \* history: what the last step returned or threw to its caller, or logged
    trace,          \* history: a queued function or callback starts ("start"), returns ("ok") or fails ("err")
    calls           \* history: how many writes, reads, enqueues, changes of the rotation period and encodes were made

vars == <<data, temp, isPaused, fideliusCharm, rotatorTimer, defaultKeyRotationDuration, existingRotatorTimerObject, beforeHandlers, afterHandlers, process, executor, queue, timers, mq, awaiting, pc, out, trace, calls>>

\* The state as one record, for the operators that compute a next state.
Cur ==
    [data |-> data, temp |-> temp, isPaused |-> isPaused, fideliusCharm |-> fideliusCharm,
     rotatorTimer |-> rotatorTimer, defaultKeyRotationDuration |-> defaultKeyRotationDuration,
     existingRotatorTimerObject |-> existingRotatorTimerObject, beforeHandlers |-> beforeHandlers,
     afterHandlers |-> afterHandlers, process |-> process, executor |-> executor,
     queue |-> queue, timers |-> timers, mq |-> mq,
     awaiting |-> awaiting, pc |-> pc, out |-> out, trace |-> trace, calls |-> calls]

Becomes(S) ==
    /\ data' = S.data
    /\ temp' = S.temp
    /\ isPaused' = S.isPaused
    /\ fideliusCharm' = S.fideliusCharm
    /\ rotatorTimer' = S.rotatorTimer
    /\ defaultKeyRotationDuration' = S.defaultKeyRotationDuration
    /\ existingRotatorTimerObject' = S.existingRotatorTimerObject
    /\ beforeHandlers' = S.beforeHandlers
    /\ afterHandlers' = S.afterHandlers
    /\ process' = S.process
    /\ executor' = S.executor
    /\ queue' = S.queue
    /\ timers' = S.timers
    /\ mq' = S.mq
    /\ awaiting' = S.awaiting
    /\ pc' = S.pc
    /\ out' = S.out
    /\ trace' = S.trace
    /\ calls' = S.calls

NoOut == [op |-> "none"]
Quiet(S) == [S EXCEPT !.out = NoOut]
PushMicrotask(S, task) == [S EXCEPT !.mq = Append(@, task)]
PopMicrotask(S) == [S EXCEPT !.mq = Tail(@)]

NoProcess == [fn |-> "none"]
\* new Executor(name, table): nothing listens to its event yet
NewExecutor == [promises |-> <<>>, executions |-> {}, executes |-> 0]
Never == [never |-> TRUE]
Duration(ms) == [ms |-> ms]

\* Milliseconds beyond the 32 bits of a platform timer: hi * maxDelay + lo,
\* with 0 <= lo < maxDelay
maxDelay == 2147483647
Millis(hi, lo) == [hi |-> hi, lo |-> lo]
\* 1e12 = 465 * maxDelay + 1420104145
maxTotalDelay == Millis(465, 1420104145)
GreaterThan(a, b) == a.hi > b.hi \/ (a.hi = b.hi /\ a.lo > b.lo)
\* Duration.days(n): n * 86400000 ms, here for the periods in use
days(n) ==
    CASE n = 1 -> Duration(Millis(0, 86400000))
      [] n = 90 -> Duration(Millis(3, 1333549059))
      [] n = 11575 -> Duration(Millis(465, 1500104145))

\* setUnboundedTimeout: the pending timers after a call that does not throw.
\* A delay above maxDelay is waited for in pieces of maxDelay; the timer
\* stands for the whole chain and fires when its last piece does.
ExceedsMaxTotalDelay(delay) == GreaterThan(delay, maxTotalDelay)
setUnboundedTimeout(pending, id, delay) == pending \cup {[id |-> id, delay |-> delay]}
\* what setUnboundedTimeout returns: a function that clears the timer when called
ClearFunction(id) == [t |-> "function", clears |-> id]
\* clearTimeout(handle): cancels a timer when handed the timer; anything else
\* (a function, undefined) is ignored
clearTimeout(pending, handle) ==
    IF handle.t = "timeout" THEN {timer \in pending : timer.id # handle.id} ELSE pending
NoCallback == [kind |-> "none"]

\* ------------------------------------------------------------------------
\* ProcessQueue.enqueue and the drain loop ProcessQueue.execute
\* ------------------------------------------------------------------------
\* The queued write of Cache.write: the function handed to the write queue.
WriteJob(S, fn) ==
    LET keyCheckSum == createCheckSum(fn.key)
        entry == [hKey |-> fn.hKey, value |-> fn.value, expiresOn |-> fn.expiration,
                  isObfusacated |-> fn.obfuscate, type |-> fn.type, checksum |-> keyCheckSum,
                  written |-> fn.written]
    IN IF validateKeyCheckSum(S.data, fn.hKey, keyCheckSum)
       THEN [S EXCEPT !.data = MapSet(@, entry),
                      !.timers = IF fn.expiration # Never
                                 THEN @ \cup {[kind |-> "ttl", hKey |-> fn.hKey, id |-> fn.id]}
                                 ELSE @]
       ELSE [S EXCEPT !.data = MapDelete(@, createHashKey(fn.key)),
                      !.out = [op |-> "warn", msg |-> "Key collision detected", key |-> fn.key]]

RECURSIVE enqueue(_, _, _)

\* The function a nesting work function enqueues from inside
Child(f) == [kind |-> "work", async |-> FALSE, fails |-> FALSE, id |-> f.id + MaxEnqueues]

\* What calling a queued function (or a completion callback) does before it
\* returns: a cache write is applied; a nesting work function calls enqueue
\* on its own queue; any other work function of the queue's own
\* specification only leaves its mark in the trace.
Body(S, f) ==
    IF f.kind = "write" THEN WriteJob(S, f)
    ELSE IF f.kind = "nest" /\ ~isFull(S.queue)
         THEN enqueue([S EXCEPT !.trace = Append(@, [at |-> "nested", ev |-> "accepted", id |-> Child(f).id, cb |-> FALSE])],
                      Child(f), [kind |-> "none"])
    ELSE S

\* The call throws: the function does, or the enqueue inside it ('Queue is full')
Throws(S, f) == f.fails \/ (f.kind = "nest" /\ isFull(S.queue))

\* A finally that leaves the flag as it is
FinallyKeepsFlag(S) == S

Finally(S) == [S EXCEPT !.queue.isExecuting = FALSE]

\* `await item()` / `await callback(result)`: the function is called at once.
\* A synchronous throw is caught by the try around the loop; a returned value
\* resumes the loop in a microtask; a pending promise suspends the loop.
Event(item, at, ev) == [at |-> at, ev |-> ev, id |-> item.function.id, cb |-> item.callback.kind # "none"]

\* A loop without the try: a synchronous throw leaves through the caller
CallAndAwaitUncaught(S, item, at) ==
    LET f == IF at = "item" THEN item.function ELSE item.callback
        S1 == Body([S EXCEPT !.trace = Append(@, Event(item, at, "start"))], f)
    IN IF f.async THEN [S1 EXCEPT !.awaiting = @ \cup {[at |-> at, item |-> item]}]
       ELSE IF Throws(S, f) THEN [S1 EXCEPT !.trace = Append(@, Event(item, at, "err")),
                                            !.out = [op |-> "enqueue", res |-> Thrown("work function")]]
       ELSE PushMicrotask([S1 EXCEPT !.trace = Append(@, Event(item, at, "ok"))],
                          [kind |-> "drain", at |-> at, item |-> item, ok |-> TRUE])

CallAndAwait(S, item, at) ==
    LET f == IF at = "item" THEN item.function ELSE item.callback
        S1 == Body([S EXCEPT !.trace = Append(@, Event(item, at, "start"))], f)
    IN IF f.async THEN [S1 EXCEPT !.awaiting = @ \cup {[at |-> at, item |-> item]}]
       ELSE IF Throws(S, f) THEN Finally([S1 EXCEPT !.trace = Append(@, Event(item, at, "err"))])
       ELSE PushMicrotask([S1 EXCEPT !.trace = Append(@, Event(item, at, "ok"))],
                          [kind |-> "drain", at |-> at, item |-> item, ok |-> TRUE])

\* The promise a suspended loop awaits settles: the loop resumes in a microtask
SettlePromise(S, loop) ==
    LET f == IF loop.at = "item" THEN loop.item.function ELSE loop.item.callback
    IN PushMicrotask([S EXCEPT !.awaiting = @ \ {loop},
                               !.trace = Append(@, Event(loop.item, loop.at, IF f.fails THEN "err" ELSE "ok"))],
                     [kind |-> "drain", at |-> loop.at, item |-> loop.item, ok |-> ~f.fails])

\* The test of the while loop and one dequeue
LoopIterate(S) ==
    IF isEmpty(S.queue) THEN Finally(S)
    ELSE CallAndAwait([S EXCEPT !.queue = QueuePop(@)], QueueFront(S.queue), "item")

\* A test that forgets the flag
ExecuteReturnsWhenEmpty(q) == isEmpty(q)

ExecuteReturnsAtOnce(q) == isEmpty(q) \/ q.isExecuting

execute(S) ==
    IF ExecuteReturnsAtOnce(S.queue) THEN S
    ELSE LoopIterate([S EXCEPT !.queue.isExecuting = TRUE])

\* ProcessQueue.enqueue(item, processCompleteCallback), item a function
enqueue(S, function, callback) ==
    IF isFull(S.queue) THEN [S EXCEPT !.out = [op |-> "enqueue", res |-> Thrown("Queue is full")]]
    ELSE LET S1 == [S EXCEPT !.queue = QueuePush(@, [function |-> function, callback |-> callback])]
         IN IF ~S1.queue.isExecuting THEN execute(S1) ELSE S1

\* The loop after an await: a rejection goes to catch and finally; after the
\* item its callback, if any, is called; otherwise the loop tests again.
ResumeLoop(S, task) ==
    IF ~task.ok THEN Finally(S)
    ELSE IF task.at = "item" /\ task.item.callback.kind # "none" THEN CallAndAwait(S, task.item, "cb")
    ELSE LoopIterate(S)

\* ------------------------------------------------------------------------
\* Cache and Obfuscator operations
\* ------------------------------------------------------------------------
\* Cache.#pauseUntilOperationsResumed, and the await on it: with the flag clear
\* the caller resumes in a microtask; otherwise it sleeps on a timer and tests
\* the flag again when the timer fires.
pauseUntilOperationsResumed(S, task) ==
    IF S.isPaused THEN [S EXCEPT !.timers = @ \cup {[kind |-> "poll", task |-> task]}]
    ELSE PushMicrotask(S, task)

\* A snapshot hook that decodes with the key that is installed next
handleBeforeKeyRotatedLate(S) ==
    [S EXCEPT !.temp = [i \in 1..Len(S.data) |-> [S.data[i] EXCEPT !.value = decode(@, S.fideliusCharm + 1)]],
              !.data = [i \in 1..Len(S.data) |-> [S.data[i] EXCEPT !.value = decode(@, S.fideliusCharm + 1)]]]

\* Cache.#handleBeforeKeyRotated: temp is a copy of the map that shares the
\* entry objects with data; forEach decodes each value in place and stops at
\* the first decode that throws (the emitter catches the error).
DecodedUntilThrow(map, key) ==
    LET bad == {i \in 1..Len(map) : IsThrown(decode(map[i].value, key))}
        stop == IF bad = {} THEN Len(map) + 1 ELSE CHOOSE i \in bad : \A j \in bad : i <= j
    IN [i \in 1..Len(map) |-> IF i < stop THEN [map[i] EXCEPT !.value = decode(@, key)] ELSE map[i]]

handleBeforeKeyRotated(S) ==
    LET decoded == DecodedUntilThrow(S.data, S.fideliusCharm)
    IN [S EXCEPT !.temp = decoded, !.data = decoded]

\* crypt.randomBytes(32): a key never drawn before
randomBytes(S) == S.fideliusCharm + 1

\* Obfuscator.events
Events == {"key_rotated", "obfuscated", "rotation_duration_changed"}

\* emitter: handler(...args) inside its try/catch.  The handler the cache
\* registers before key_rotated is #handleBeforeKeyRotated; a handler
\* registered from outside leaves its call in the trace, with the key active
\* at the call, and, when it throws, the logged error in out.
callHandler(S, handler, phase, event) ==
    IF handler.name = "handleBeforeKeyRotated" THEN handleBeforeKeyRotated(S)
    ELSE LET called == [S EXCEPT !.trace = Append(@, [at |-> phase, ev |-> event, id |-> handler.id, cb |-> FALSE,
                                                      charm |-> S.fideliusCharm])]
         IN IF handler.throws
            THEN [called EXCEPT !.out = [op |-> "log", msg |-> <<"Error in handler">>, phase |-> phase, id |-> handler.id]]
            ELSE called

RECURSIVE forEachHandler(_, _, _, _)
forEachHandler(S, handlers, phase, event) ==
    IF handlers = <<>> THEN S
    ELSE forEachHandler(callHandler(S, Head(handlers), phase, event), Tail(handlers), phase, event)

\* A forEach that an error of a handler ends
RECURSIVE UntilThrow(_)
UntilThrow(handlers) ==
    IF handlers = <<>> THEN <<>>
    ELSE IF "throws" \in DOMAIN Head(handlers) /\ Head(handlers).throws THEN <<Head(handlers)>>
    ELSE <<Head(handlers)>> \o UntilThrow(Tail(handlers))
forEachUntilThrow(S, handlers, phase, event) == forEachHandler(S, UntilThrow(handlers), phase, event)

\* emitter: the handlers of one phase of an event
runHandlers(S, handlers, phase, event) == forEachHandler(S, handlers, phase, event)
emitterBefore(S, event) == runHandlers(S, S.beforeHandlers[event], "before", event)
emitterAfter(S, event) == runHandlers(S, S.afterHandlers[event], "after", event)

\* A type check that lets undefined through
IsNonCachableSparingUndefined(typeOfValue) == typeOfValue \in {"function", "symbol"}

IsNonCachable(typeOfValue) == typeOfValue \in {"function", "undefined", "symbol"}

Has(key) == MapHas(data, createHashKey(key))

Idle == pc = "idle"
NextTask(kind) == Idle /\ mq # <<>> /\ Head(mq).kind = kind

\* The function Cache.write hands to the write queue, with what it closes
\* over: the value, encoded under the key in use when write resumed
QueuedWrite(task, key) ==
    [kind |-> "write", async |-> FALSE, fails |-> FALSE, id |-> task.id, key |-> task.key,
     hKey |-> task.hKey, value |-> IF task.obfuscate THEN encode(task.value, key) ELSE task.value,
     expiration |-> task.expiration, obfuscate |-> task.obfuscate, type |-> task.type,
     written |-> task.value]

\* Cache.write up to its await
WriteCall(key, value, expiration, obfuscate) ==
    LET typeOfValue == TypeTag(value)
        hKey == createHashKey(key)
        id == calls.writes + 1
        task == [kind |-> "write", id |-> id, key |-> key, hKey |-> hKey, value |-> value,
                 expiration |-> expiration, obfuscate |-> obfuscate, type |-> typeOfValue]
    IN /\ Idle
       /\ IsNonCachable(typeOfValue) \/ calls.writes < MaxWrites
       /\ Becomes(IF IsNonCachable(typeOfValue)
                  THEN [Cur EXCEPT !.out = [op |-> "write", res |-> Thrown("NON_CACHABLE_VALUE")]]
                  ELSE pauseUntilOperationsResumed([Quiet(Cur) EXCEPT !.calls.writes = id], task))

\* Cache.write after its await: encode, then enqueue the write.  (encode runs
\* inside emitter("obfuscated"), whose callback has returned the text when
\* encode returns; the rest of that emitter calls no handler, the cache
\* registers none for the event, and is left out.)
WriteResume ==
    /\ NextTask("write")
    /\ Becomes(enqueue(Quiet(PopMicrotask(Cur)), QueuedWrite(Head(mq), fideliusCharm), NoCallback))

\* Cache.read up to its await
ReadCall(key) ==
    /\ Idle
    /\ calls.reads < MaxReads
    /\ Becomes(pauseUntilOperationsResumed([Quiet(Cur) EXCEPT !.calls.reads = @ + 1], [kind |-> "read", key |-> key]))

\* Cache.read after its await
ReadResume ==
    /\ NextTask("read")
    /\ LET task == Head(mq)
           hKey == createHashKey(task.key)
           S0 == PopMicrotask(Cur)
       IN Becomes(IF ~MapHas(data, hKey)
                  THEN [S0 EXCEPT !.out = [op |-> "read", key |-> task.key, hit |-> FALSE, res |-> Null]]
                  ELSE LET cacheItem == MapGet(data, hKey)
                       IN [S0 EXCEPT !.out = [op |-> "read", key |-> task.key, hit |-> TRUE, item |-> cacheItem,
                                              charm |-> fideliusCharm,
                                              res |-> IF cacheItem.isObfusacated
                                                      THEN decode(cacheItem.value, fideliusCharm)
                                                      ELSE cacheItem.value]])

\* Cache.delete
Delete(key) ==
    /\ Idle
    /\ Becomes([Cur EXCEPT !.data = MapDelete(@, createHashKey(key)),
                           !.out = NoOut])

\* Cache.destroy called by a caller: the flag is set, the map cleared and the
\* flag cleared in one synchronous run
DestroyStaysPaused ==
    /\ Idle
    /\ Becomes([Cur EXCEPT !.data = <<>>, !.isPaused = TRUE, !.out = [op |-> "destroy"]])

Destroy ==
    /\ Idle
    /\ Becomes([Cur EXCEPT !.data = <<>>, !.isPaused = FALSE, !.out = [op |-> "destroy"]])

\* Obfuscator.rotateKey -> emitter("key_rotated"): the before handlers
RotateKey ==
    /\ Idle
    /\ fideliusCharm < MaxRotations
    /\ Becomes([emitterBefore(Quiet(Cur), "key_rotated") EXCEPT !.pc = "rotate:install"])

\* The timer set by Obfuscator.#rotator fires and calls rotateKey
RotatorTimeout ==
    /\ Idle
    /\ mq = <<>>
    /\ fideliusCharm < MaxRotations
    /\ \E timer \in rotatorTimer :
           Becomes([emitterBefore(Quiet(Cur), "key_rotated") EXCEPT !.pc = "rotate:install", !.rotatorTimer = @ \ {timer}])

\* emitter: `await callback()`: the callback installs the new key, the rest of
\* the emitter (emit, after handlers) waits in a microtask
InstallKey ==
    /\ pc = "rotate:install"
    /\ Becomes(PushMicrotask([Cur EXCEPT !.fideliusCharm = randomBytes(Cur), !.pc = "idle"],
                             [kind |-> "emit", event |-> "key_rotated"]))

\* emitter after its await: super.emit(event) calls the listeners.  The cache
\* listens to key_rotated with #handleKeyRotated, whose first statement sets
\* the flag; the after handlers follow when the listener has returned.
EmitResume ==
    /\ NextTask("emit")
    /\ Becomes([Quiet(PopMicrotask(Cur)) EXCEPT !.isPaused = TRUE, !.pc = "rotated:destroy"])

\* #handleKeyRotated: this.destroy(), statement by statement
RotatedDestroy ==
    /\ pc = "rotated:destroy"
    /\ Becomes([Cur EXCEPT !.isPaused = TRUE, !.pc = "rotated:destroy:clear"])

RotatedDestroyClear ==
    /\ pc = "rotated:destroy:clear"
    /\ Becomes([Cur EXCEPT !.data = <<>>, !.pc = "rotated:destroy:resume"])

RotatedDestroyResume ==
    /\ pc = "rotated:destroy:resume"
    /\ Becomes([Cur EXCEPT !.isPaused = FALSE, !.pc = "rotated:encode"])

\* #handleKeyRotated: temp.forEach(object.value = encode(object.value))
RotatedEncode ==
    /\ pc = "rotated:encode"
    /\ LET encoded == [i \in 1..Len(temp) |-> [temp[i] EXCEPT !.value = encode(@, fideliusCharm)]]
       IN Becomes([Cur EXCEPT !.temp = encoded, !.pc = "rotated:swap"])

\* #handleKeyRotated: this.#data = new Map(this.#temp)
RotatedSwap ==
    /\ pc = "rotated:swap"
    /\ Becomes([Cur EXCEPT !.data = temp, !.pc = "rotated:resume"])

\* #handleKeyRotated: this.#isPaused = false
RotatedResume ==
    /\ pc = "rotated:resume"
    /\ Becomes([Cur EXCEPT !.isPaused = FALSE, !.pc = "rotated:clear"])

\* #handleKeyRotated: this.#temp.clear(); the listener returns and the
\* emitter runs the after handlers
RotatedClear ==
    /\ pc = "rotated:clear"
    /\ Becomes(emitterAfter([Cur EXCEPT !.temp = <<>>, !.pc = "idle"], "key_rotated"))

\* The drain loop of the write queue after an await
DrainResume ==
    /\ NextTask("drain")
    /\ Becomes(ResumeLoop(Quiet(PopMicrotask(Cur)), Head(mq)))

\* A timer callback that forgets to delete
TimeoutKeepsEntry(timer) ==
    /\ pc = "idle"
    /\ mq = <<>>
    /\ timer \in timers
    /\ Becomes([Cur EXCEPT !.timers = @ \ {timer}, !.out = [op |-> "timeout", timer |-> timer]])

\* A setTimeout callback runs: the expiry set by #runCacheCleanup deletes the
\* hashed key; a sleep of the pause gate tests the flag again.
Timeout(timer) ==
    /\ Idle
    /\ mq = <<>>
    /\ timer \in timers
    /\ Becomes(IF timer.kind = "ttl"
               THEN [Cur EXCEPT !.data = MapDelete(@, timer.hKey), !.timers = @ \ {timer},
                                !.out = [op |-> "timeout", timer |-> timer]]
               ELSE IF isPaused THEN Quiet(Cur)
               ELSE PushMicrotask([Quiet(Cur) EXCEPT !.timers = @ \ {timer}], timer.task))

\* ------------------------------------------------------------------------
\* The cache: the calls that change it (write, delete, destroy, rotateKey),
\* their continuations and the expiry timers.  Reads, which change nothing,
\* are part of the specifications further down.
\* ------------------------------------------------------------------------
CacheValues == {Num(7), Str(<<"a">>)}
ReadKeys == {KeyA, KeyB}
Expirations == {Never, Duration(100)}

Init ==
    /\ data = <<>>
    /\ temp = <<>>
    /\ isPaused = FALSE
    /\ fideliusCharm = 0
    /\ defaultKeyRotationDuration = days(90)
    /\ rotatorTimer = setUnboundedTimeout({}, 0, days(90).ms)
    /\ existingRotatorTimerObject = ClearFunction(0)
    /\ beforeHandlers = [event \in Events |-> IF event = "key_rotated" THEN <<[name |-> "handleBeforeKeyRotated"]>> ELSE <<>>]
    /\ afterHandlers = [event \in Events |-> <<>>]
    /\ process = NoProcess
    /\ executor = NewExecutor
    /\ queue = NewQueue(5000)
    /\ timers = {}
    /\ mq = <<>>
    /\ awaiting = {}
    /\ pc = "idle"
    /\ out = NoOut
    /\ trace = <<>>
    /\ calls = [writes |-> 0, reads |-> 0, enqueues |-> 0, periods |-> 0, encodes |-> 0]

Next ==
    \/ \E key \in Keys, value \in CacheValues, expiration \in Expirations, obfuscate \in BOOLEAN :
          WriteCall(key, value, expiration, obfuscate)
    \/ WriteResume
    \/ \E key \in Keys : Delete(key)
    \/ Destroy
    \/ RotateKey
    \/ InstallKey
    \/ EmitResume
    \/ RotatedDestroy
    \/ RotatedDestroyClear
    \/ RotatedDestroyResume
    \/ RotatedEncode
    \/ RotatedSwap
    \/ RotatedResume
    \/ RotatedClear
    \/ DrainResume
    \/ \E timer \in timers : Timeout(timer)

Spec == Init /\ [][Next]_vars

\* ------------------------------------------------------------------------
\* The cache under rotation: obfuscated entries that never expire, of a type
\* that decode restores (number) and of one it does not (bigint)
\* ------------------------------------------------------------------------
RotationValues == {Num(7), Big(5)}

RotationNext ==
    \/ \E key \in ReadKeys, value \in RotationValues : WriteCall(key, value, Never, TRUE)
    \/ WriteResume
    \/ \E key \in ReadKeys : ReadCall(key)
    \/ ReadResume
    \/ RotateKey
    \/ RotatorTimeout
    \/ InstallKey
    \/ EmitResume
    \/ RotatedDestroy
    \/ RotatedDestroyClear
    \/ RotatedDestroyResume
    \/ RotatedEncode
    \/ RotatedSwap
    \/ RotatedResume
    \/ RotatedClear
    \/ DrainResume

SpecRotation == Init /\ [][RotationNext]_vars

\* ------------------------------------------------------------------------
\* Writes and reads of one key, no rotation: values of every supported type
\* and of the types the cache refuses
\* ------------------------------------------------------------------------
RoundTripValues ==
    {Num(0), Num(MaxNum), Num(0 - MaxNum), Big(0), Big(MaxNum), Bool(TRUE), Bool(FALSE),
     Str(<<>>), Str(<<"a">>), Str(<<"T", "r", "u", "e">>), Str(<<"1", ":", "2", ":", "3">>),
     Arr(<<>>), Arr(<<MaxNum, 0 - 1>>), Null, Obj(<<"a">>, MaxNum),
     Undefined, Function, Symbol}

RoundTripNext ==
    \/ \E value \in RoundTripValues, obfuscate \in BOOLEAN : WriteCall(KeyA, value, Never, obfuscate)
    \/ WriteResume
    \/ ReadCall(KeyA)
    \/ ReadResume
    \/ DrainResume

SpecRoundTrip == Init /\ [][RoundTripNext]_vars

\* ------------------------------------------------------------------------
\* A ProcessQueue on its own: work functions and completion callbacks that
\* return at once or after some time, and that succeed or fail
\* ------------------------------------------------------------------------
WorkFunctions == {[kind |-> "work", async |-> a, fails |-> f] : a \in BOOLEAN, f \in BOOLEAN}
Callbacks == {NoCallback} \cup {[kind |-> "callback", async |-> a, fails |-> f] : a \in BOOLEAN, f \in BOOLEAN}

\* a caller calls enqueue(item, processCompleteCallback)
Enqueue(function, callback) ==
    /\ Idle
    /\ calls.enqueues < MaxEnqueues
    /\ LET id == calls.enqueues + 1
           item == [kind |-> function.kind, async |-> function.async, fails |-> function.fails, id |-> id]
       IN Becomes(enqueue(Quiet(IF isFull(queue) THEN Cur ELSE [Cur EXCEPT !.calls.enqueues = id]), item, callback))

\* a caller calls execute()
Execute ==
    /\ Idle
    /\ Becomes(execute(Quiet(Cur)))

\* the promise returned by a work function or a callback settles
Settle(loop) ==
    /\ Idle
    /\ loop \in awaiting
    /\ Becomes(SettlePromise(Quiet(Cur), loop))

QueueInit ==
    /\ data = <<>>
    /\ temp = <<>>
    /\ isPaused = FALSE
    /\ fideliusCharm = 0
    /\ defaultKeyRotationDuration = days(90)
    /\ rotatorTimer = {}
    /\ existingRotatorTimerObject = Undefined
    /\ beforeHandlers = [event \in Events |-> <<>>]
    /\ afterHandlers = [event \in Events |-> <<>>]
    /\ process = NoProcess
    /\ executor = NewExecutor
    /\ queue = NewQueue(PQCapacity)
    /\ timers = {}
    /\ mq = <<>>
    /\ awaiting = {}
    /\ pc = "idle"
    /\ out = NoOut
    /\ trace = <<>>
    /\ calls = [writes |-> 0, reads |-> 0, enqueues |-> 0, periods |-> 0, encodes |-> 0]

QueueNext ==
    \/ \E function \in WorkFunctions, callback \in Callbacks : Enqueue(function, callback)
    \/ Execute
    \/ \E loop \in awaiting : Settle(loop)
    \/ DrainResume

SpecQueue == QueueInit /\ [][QueueNext]_vars

\* ------------------------------------------------------------------------
\* Rotation with nothing else under way: obfuscated writes before the first
\* rotation, a rotation only once the writes have drained and the previous
\* rotation is over, a read only after a rotation has ended
\* ------------------------------------------------------------------------
Quiescent == pc = "idle" /\ mq = <<>> /\ isEmpty(queue) /\ ~queue.isExecuting /\ temp = <<>>

QuietRotationNext ==
    \/ \E key \in ReadKeys, value \in RotationValues : fideliusCharm = 0 /\ WriteCall(key, value, Never, TRUE)
    \/ WriteResume
    \/ DrainResume
    \/ Quiescent /\ RotateKey
    \/ Quiescent /\ RotatorTimeout
    \/ InstallKey
    \/ EmitResume
    \/ RotatedDestroy
    \/ RotatedDestroyClear
    \/ RotatedDestroyResume
    \/ RotatedEncode
    \/ RotatedSwap
    \/ RotatedResume
    \/ RotatedClear
    \/ \E key \in ReadKeys : Quiescent /\ fideliusCharm > 0 /\ ReadCall(key)
    \/ ReadResume

SpecQuietRotation == Init /\ [][QuietRotationNext]_vars

\* ------------------------------------------------------------------------
\* Writes to one key, the i-th of them writing the number i, and rotations
\* ------------------------------------------------------------------------
LastWriteNext ==
    \/ \E obfuscate \in BOOLEAN : WriteCall(KeyA, Num(calls.writes + 1), Never, obfuscate)
    \/ WriteResume
    \/ DrainResume
    \/ RotateKey
    \/ InstallKey
    \/ EmitResume
    \/ RotatedDestroy
    \/ RotatedDestroyClear
    \/ RotatedDestroyResume
    \/ RotatedEncode
    \/ RotatedSwap
    \/ RotatedResume
    \/ RotatedClear

SpecLastWrite == Init /\ [][LastWriteNext]_vars

\* ------------------------------------------------------------------------
\* Properties
\* ------------------------------------------------------------------------
HashedKeys == {createHashKey(key) : key \in Keys}

\* The queued write the next step can start: the front of the write queue, or
\* the write that resumes next when nothing is queued
NextWrites ==
    (IF isEmpty(queue) THEN {} ELSE {QueueFront(queue).function})
        \cup (IF mq # <<>> /\ Head(mq).kind = "write" THEN {QueuedWrite(Head(mq), fideliusCharm)} ELSE {})

\* This step calls the queued write fn, which returns
StartedWrite(fn) ==
    /\ Len(trace') = Len(trace) + 2
    /\ trace'[Len(trace) + 1] = [at |-> "item", ev |-> "start", id |-> fn.id, cb |-> FALSE]
    /\ trace'[Len(trace) + 2] = [at |-> "item", ev |-> "ok", id |-> fn.id, cb |-> FALSE]

\* The queued write fn meets an entry stored under another key
Collides(fn) == MapHas(data, fn.hKey) /\ MapGet(data, fn.hKey).checksum # createCheckSum(fn.key)

EntryOf(fn) ==
    [hKey |-> fn.hKey, value |-> fn.value, expiresOn |-> fn.expiration, isObfusacated |-> fn.obfuscate,
     type |-> fn.type, checksum |-> createCheckSum(fn.key), written |-> fn.written]

OtherEntriesKept(hKey) ==
    /\ \A i \in 1..Len(data) : data[i].hKey # hKey => \E j \in 1..Len(data') : data'[j] = data[i]
    /\ \A j \in 1..Len(data') : data'[j].hKey # hKey => \E i \in 1..Len(data) : data[i] = data'[j]

\* C1: in SpecQuietRotation (obfuscated writes drained, then rotations that
\* each run to their end, then a read) a read that finds the entry returns the
\* value that was written.
RotationTransparency ==
    (out.op = "read" /\ out.hit /\ out.charm > 0) => (~IsThrown(out.res) /\ out.res = out.item.written)

\* C2: whenever a read looks up an obfuscated entry, the stored value is
\* ciphertext under the key then active, and the read does not fail.
ReadSeesActiveKeyCiphertext ==
    (out.op = "read" /\ out.hit /\ out.item.isObfusacated) =>
        (IsEncoded(out.item.value) /\ out.item.value.enc.key = out.charm /\ ~IsThrown(out.res))

\* Work functions start in enqueue order, and nothing starts while a work
\* function or a completion callback is running or still owed: in the history
\* each start follows a return, a callback starts right after its own work
\* function returned, and a work function does not start right after a work
\* function that returned and has a callback.
SerializedStarts ==
    /\ \A i \in 1..Len(trace) :
          /\ (trace[i].ev = "start" /\ i > 1) => trace[i - 1].ev # "start"
          /\ trace[i].ev # "start" =>
                (i > 1 /\ trace[i - 1] = [trace[i] EXCEPT !.ev = "start"])
          /\ (trace[i].ev = "start" /\ trace[i].at = "cb") =>
                (i > 1 /\ trace[i - 1] = [trace[i] EXCEPT !.ev = "ok", !.at = "item"])
          /\ (trace[i].ev = "start" /\ trace[i].at = "item" /\ i > 1) =>
                ~(trace[i - 1].at = "item" /\ trace[i - 1].ev = "ok" /\ trace[i - 1].cb)
    /\ \A i, j \in 1..Len(trace) :
          (i < j /\ trace[i].ev = "start" /\ trace[i].at = "item" /\ trace[j].ev = "start" /\ trace[j].at = "item")
              => trace[i].id < trace[j].id

\* C3: in SpecLastWrite (writes to one key, the i-th writing i) once at least
\* two writes were submitted and everything has drained, the key holds the
\* entry of the last write submitted.
LastWriteWins ==
    (Quiescent /\ calls.writes >= 2) =>
        (Has(KeyA) /\ MapGet(data, createHashKey(KeyA)).written = Num(calls.writes))

\* C4: the drain loop ends only on an empty queue: whenever no loop is
\* running, nothing is left queued.
DrainLoopNeverStrands == ~queue.isExecuting => isEmpty(queue)

\* C5: with no rotation, a read that finds the entry returns a value equal to
\* the one written, with the same type.
RoundTrip ==
    (out.op = "read" /\ out.hit) =>
        (out.res = out.item.written /\ TypeTag(out.res) = TypeTag(out.item.written))

UniqueHashedKeys == \A i, j \in 1..Len(data) : data[i].hKey = data[j].hKey => i = j

CollisionRule ==
    \A fn \in NextWrites :
        StartedWrite(fn) =>
            /\ OtherEntriesKept(fn.hKey)
            /\ IF Collides(fn) THEN ~MapHas(data', fn.hKey)
               ELSE MapHas(data', fn.hKey) /\ MapGet(data', fn.hKey) = EntryOf(fn)

OnlyWritesBringBack ==
    \A hKey \in HashedKeys :
        /\ (~MapHas(data, hKey) /\ MapHas(data', hKey)) =>
              \/ \E fn \in NextWrites : StartedWrite(fn) /\ fn.hKey = hKey
              \/ pc = "rotated:swap" /\ MapHas(temp, hKey)
        /\ (~MapHas(temp, hKey) /\ MapHas(temp', hKey)) => MapHas(data, hKey)

Expires ==
    \A timer \in timers :
        (timer.kind = "ttl" /\ Timeout(timer)) => (~MapHas(data', timer.hKey) /\ ~MapHas(temp', timer.hKey))

NeverExpire ==
    [][\A timer \in timers :
          (Timeout(timer) /\ MapHas(data, timer.hKey) /\ MapGet(data, timer.hKey).expiresOn = Never)
              => MapHas(data', timer.hKey)]_vars

\* C10: a write of a function, of undefined or of a symbol throws
\* NON_CACHABLE_VALUE and changes nothing: not the write queue, not the map,
\* not the pending jobs and timers.
NonCachableRejected ==
    [][\A value \in RoundTripValues, obfuscate \in BOOLEAN :
          (TypeTag(value) \in {"function", "undefined", "symbol"} /\ WriteCall(KeyA, value, Never, obfuscate))
              => /\ out' = [op |-> "write", res |-> Thrown("NON_CACHABLE_VALUE")]
                 /\ queue' = queue
                 /\ data' = data
                 /\ mq' = mq
                 /\ timers' = timers
                 /\ calls' = calls]_vars

NonCachableRejectedWitness ==
    /\ out = [op |-> "write", res |-> Thrown("NON_CACHABLE_VALUE")]
    /\ data # <<>>
    /\ queue.size > 0

\* ------------------------------------------------------------------------
\* A Queue on its own, of every capacity up to PQCapacity: callers enqueue
\* the numbers 1, 2, ... in this order, dequeue and peek.  The history keeps
\* the calls that succeeded.
\* ------------------------------------------------------------------------
QueueCall(ev, id) == [at |-> "queue", ev |-> ev, id |-> id, cb |-> FALSE]

\* Queue.enqueue(item)
QueueEnqueue(S, item) ==
    IF isFull(S.queue) THEN [S EXCEPT !.out = [op |-> "enqueue", res |-> Thrown("Queue is full")]]
    ELSE [S EXCEPT !.queue = QueuePush(@, item),
                   !.trace = Append(@, QueueCall("enqueue", item.n)),
                   !.out = [op |-> "enqueue", res |-> Undefined]]

\* Queue.dequeue()
dequeue(S) ==
    IF isEmpty(S.queue) THEN [S EXCEPT !.out = [op |-> "dequeue", res |-> Thrown("Queue is empty")]]
    ELSE [S EXCEPT !.queue = QueuePop(@),
                   !.trace = Append(@, QueueCall("dequeue", QueueFront(S.queue).n)),
                   !.out = [op |-> "dequeue", res |-> QueueFront(S.queue)]]

\* Queue.peek()
peek(S) ==
    IF isEmpty(S.queue) THEN [S EXCEPT !.out = [op |-> "peek", res |-> Thrown("Queue is empty")]]
    ELSE [S EXCEPT !.out = [op |-> "peek", res |-> QueueFront(S.queue)]]

EnqueueItem ==
    /\ Idle
    /\ calls.enqueues < MaxItems
    /\ Becomes(QueueEnqueue(IF isFull(queue) THEN Cur ELSE [Cur EXCEPT !.calls.enqueues = @ + 1],
                            Num(calls.enqueues + 1)))

Dequeue ==
    /\ Idle
    /\ Becomes(dequeue(Cur))

Peek ==
    /\ Idle
    /\ Becomes(peek(Cur))

FifoInit ==
    /\ data = <<>>
    /\ temp = <<>>
    /\ isPaused = FALSE
    /\ fideliusCharm = 0
    /\ defaultKeyRotationDuration = days(90)
    /\ rotatorTimer = {}
    /\ existingRotatorTimerObject = Undefined
    /\ beforeHandlers = [event \in Events |-> <<>>]
    /\ afterHandlers = [event \in Events |-> <<>>]
    /\ process = NoProcess
    /\ executor = NewExecutor
    /\ queue \in {NewQueue(capacity) : capacity \in 1..PQCapacity}
    /\ timers = {}
    /\ mq = <<>>
    /\ awaiting = {}
    /\ pc = "idle"
    /\ out = NoOut
    /\ trace = <<>>
    /\ calls = [writes |-> 0, reads |-> 0, enqueues |-> 0, periods |-> 0, encodes |-> 0]

FifoNext ==
    \/ EnqueueItem
    \/ Dequeue
    \/ Peek

SpecFifo == FifoInit /\ [][FifoNext]_vars

Failed(op, msg) == out' = [op |-> op, res |-> Thrown(msg)]

\* C11: enqueue fails with 'Queue is full' exactly when size = capacity,
\* dequeue and peek fail with 'Queue is empty' exactly when size = 0, a call
\* that fails leaves the queue (front, rear, size, items) as it was, and the
\* size always lies between 0 and the capacity.
BoundedQueueErrors ==
    /\ [](0 <= queue.size /\ queue.size <= queue.capacity)
    /\ [][/\ EnqueueItem => /\ Failed("enqueue", "Queue is full") <=> queue.size = queue.capacity
                            /\ Failed("enqueue", "Queue is full") => queue' = queue
                            /\ IsThrown(out'.res) => Failed("enqueue", "Queue is full")
          /\ Dequeue => /\ Failed("dequeue", "Queue is empty") <=> queue.size = 0
                        /\ Failed("dequeue", "Queue is empty") => queue' = queue
                        /\ IsThrown(out'.res) => Failed("dequeue", "Queue is empty")
          /\ Peek => /\ Failed("peek", "Queue is empty") <=> queue.size = 0
                     /\ Failed("peek", "Queue is empty") => queue' = queue
                     /\ IsThrown(out'.res) => Failed("peek", "Queue is empty")]_vars

BoundedQueueErrorsWitness ==
    /\ out = [op |-> "enqueue", res |-> Thrown("Queue is full")]
    /\ queue.size = queue.capacity
    /\ queue.front > 0

\* The reference sequence: the numbers enqueued and not yet dequeued, oldest
\* first, read from the history of the calls that succeeded
Enqueued == SelectSeq(trace, LAMBDA e : e.ev = "enqueue")
Dequeued == SelectSeq(trace, LAMBDA e : e.ev = "dequeue")
Reference == [i \in 1..(Len(Enqueued) - Len(Dequeued)) |-> Num(Enqueued[Len(Dequeued) + i].id)]

\* C12: the circular buffer holds the reference sequence from front on, its
\* size is the length of that sequence, a dequeue returns the oldest number
\* not yet dequeued and a peek returns the head of the sequence.
FifoOrder ==
    /\ Len(Dequeued) <= Len(Enqueued)
    /\ queue.size = Len(Reference)
    /\ \A i \in 1..Len(Reference) : queue.items[(queue.front + i - 1) % queue.capacity] = Reference[i]
    /\ (out.op = "dequeue" /\ ~IsThrown(out.res)) => out.res = Num(Enqueued[Len(Dequeued)].id)
    /\ (out.op = "peek" /\ ~IsThrown(out.res)) => (Reference # <<>> /\ out.res = Reference[1])
    /\ \A i \in 1..Len(Enqueued) : Enqueued[i].id = i

FifoOrderWitness ==
    /\ out = [op |-> "dequeue", res |-> Num(2)]
    /\ queue.capacity = 2
    /\ queue.items[0] = Num(3)
    /\ Reference = <<Num(3)>>

\* ------------------------------------------------------------------------
\* The rotation period: the setter of defaultKeyRotationDuration, #rotator
\* ------------------------------------------------------------------------
\* Obfuscator.#rotator, called inside the emitter's try around the callback:
\* an error of setUnboundedTimeout is caught there and logged, and the
\* assignment to #existingRotatorTimerObject does not happen.
rotator(S) ==
    LET duration == S.defaultKeyRotationDuration
        id == S.calls.periods
    IN IF ExceedsMaxTotalDelay(duration.ms)
       THEN [S EXCEPT !.out = [op |-> "set", res |-> Undefined, logged |-> Thrown(<<"Whoa there, time traveler!">>)]]
       ELSE [S EXCEPT !.rotatorTimer = setUnboundedTimeout(@, id, duration.ms),
                      !.existingRotatorTimerObject = ClearFunction(id),
                      !.out = [op |-> "set", res |-> Undefined, logged |-> Undefined]]

\* The callback the setter hands to the emitter.  No before handler is
\* registered for rotation_duration_changed, so it runs inside the setter.
rotationDurationChanged(S) ==
    rotator(IF S.existingRotatorTimerObject.t # "undefined"
            THEN [S EXCEPT !.rotatorTimer = clearTimeout(@, S.existingRotatorTimerObject)]
            ELSE S)

\* set defaultKeyRotationDuration(duration)
SetDefaultKeyRotationDuration(duration) ==
    /\ Idle
    /\ calls.periods < MaxPeriodChanges
    /\ Becomes(rotationDurationChanged([Cur EXCEPT !.defaultKeyRotationDuration = duration,
                                                   !.calls.periods = @ + 1]))

Periods == {days(1), days(90), days(11575)}

RotatorNext ==
    \/ \E duration \in Periods : SetDefaultKeyRotationDuration(duration)
    \/ RotatorTimeout
    \/ InstallKey
    \/ EmitResume
    \/ RotatedDestroy
    \/ RotatedDestroyClear
    \/ RotatedDestroyResume
    \/ RotatedEncode
    \/ RotatedSwap
    \/ RotatedResume
    \/ RotatedClear

SpecRotator == Init /\ [][RotatorNext]_vars

\* C13: a change of the rotation period to an accepted value leaves exactly
\* one rotation timer pending, the one of the new period, so that no rotation
\* is started by a timer set before the change.
AcceptedChange(duration) == SetDefaultKeyRotationDuration(duration) /\ ~GreaterThan(duration.ms, maxTotalDelay)
PeriodChangeReschedules ==
    [][\A duration \in Periods :
          AcceptedChange(duration) => rotatorTimer' = {[id |-> calls'.periods, delay |-> duration.ms]}]_vars

\* C14: a change of the rotation period to a value above the ceiling raises
\* an error to the caller and leaves the period and the timers as they were.
RejectedChange(duration) == SetDefaultKeyRotationDuration(duration) /\ GreaterThan(duration.ms, maxTotalDelay)
PeriodAboveCeilingRejected ==
    [][\A duration \in Periods :
          RejectedChange(duration) =>
              /\ IsThrown(out'.res)
              /\ defaultKeyRotationDuration' = defaultKeyRotationDuration
              /\ rotatorTimer' = rotatorTimer]_vars

\* C15: with the period left unchanged, once a rotation started by the timer
\* is through, a further rotation timer is pending.
RotationRecurs ==
    (calls.periods = 0 /\ fideliusCharm > 0 /\ Idle /\ mq = <<>>) => rotatorTimer # {}

\* ------------------------------------------------------------------------
\* Handlers registered with before() and after(), and the emitter around them
\* ------------------------------------------------------------------------
IsHook(handler) == handler.name = "hook"
Registered(handlers) == Len(SelectSeq(handlers, IsHook))
HooksRegistered ==
    Registered(beforeHandlers["key_rotated"]) + Registered(beforeHandlers["obfuscated"])
    + Registered(afterHandlers["key_rotated"]) + Registered(afterHandlers["obfuscated"])
Hook(throws) == [name |-> "hook", id |-> HooksRegistered + 1, throws |-> throws]
HookEvents == {"key_rotated", "obfuscated"}

\* before(event, handler)
Before(event, throws) ==
    /\ Idle
    /\ HooksRegistered < MaxHooks
    /\ Becomes([Quiet(Cur) EXCEPT !.beforeHandlers[event] = Append(@, Hook(throws))])

\* after(event, handler)
After(event, throws) ==
    /\ Idle
    /\ HooksRegistered < MaxHooks
    /\ Becomes([Quiet(Cur) EXCEPT !.afterHandlers[event] = Append(@, Hook(throws))])

\* Obfuscator.encode(value) called from outside: the before handlers and the
\* callback run inside the call, the rest of the emitter in a microtask
Encode(value) ==
    /\ Idle
    /\ calls.encodes < MaxEncodes
    /\ LET before == emitterBefore(Quiet([Cur EXCEPT !.calls.encodes = @ + 1]), "obfuscated")
       IN Becomes(PushMicrotask([before EXCEPT !.out = [op |-> "encode", res |-> encode(value, fideliusCharm)]],
                                [kind |-> "obfuscated", event |-> "obfuscated"]))

\* emitter after its await, for obfuscated: nothing listens, the after handlers run
ObfuscatedResume ==
    /\ NextTask("obfuscated")
    /\ Becomes(emitterAfter(Quiet(PopMicrotask(Cur)), "obfuscated"))

HooksNext ==
    \/ \E event \in HookEvents, throws \in BOOLEAN : Before(event, throws)
    \/ \E event \in HookEvents, throws \in BOOLEAN : After(event, throws)
    \/ \E value \in CacheValues : Encode(value)
    \/ ObfuscatedResume
    \/ RotateKey
    \/ InstallKey
    \/ EmitResume
    \/ RotatedDestroy
    \/ RotatedDestroyClear
    \/ RotatedDestroyResume
    \/ RotatedEncode
    \/ RotatedSwap
    \/ RotatedResume
    \/ RotatedClear

SpecHooks == Init /\ [][HooksNext]_vars

\* C16: a handler that throws aborts nothing.  Every handler registered for
\* the phase is called, in the order of registration, whether or not one
\* before it threw; the event's action follows the before handlers (the new
\* key is installed, the value is encoded and returned), the listeners and
\* the after handlers follow the action; nothing is thrown to the caller of
\* rotateKey() or encode().
HookCalls(handlers, phase, event) ==
    LET hooks == SelectSeq(handlers, IsHook)
    IN [i \in 1..Len(hooks) |-> [at |-> phase, ev |-> event, id |-> hooks[i].id, cb |-> FALSE, charm |-> fideliusCharm]]
NothingThrown == out'.op \in {"none", "log"}
HookErrorsNeverAbort ==
    [][/\ RotateKey =>
            /\ trace' = trace \o HookCalls(beforeHandlers["key_rotated"], "before", "key_rotated")
            /\ pc' = "rotate:install"
            /\ NothingThrown
       /\ InstallKey =>
            /\ fideliusCharm' = fideliusCharm + 1
            /\ mq' = Append(mq, [kind |-> "emit", event |-> "key_rotated"])
       /\ EmitResume => pc' = "rotated:destroy"
       /\ RotatedClear =>
            /\ trace' = trace \o HookCalls(afterHandlers["key_rotated"], "after", "key_rotated")
            /\ NothingThrown
       /\ \A value \in CacheValues :
            Encode(value) =>
                /\ trace' = trace \o HookCalls(beforeHandlers["obfuscated"], "before", "obfuscated")
                /\ IsEncoded(out'.res)
                /\ decode(out'.res, fideliusCharm) = value
                /\ mq' = Append(mq, [kind |-> "obfuscated", event |-> "obfuscated"])
       /\ ObfuscatedResume =>
            /\ trace' = trace \o HookCalls(afterHandlers["obfuscated"], "after", "obfuscated")
            /\ NothingThrown]_vars

\* The first of two handlers before key_rotated throws; the second was called,
\* the key was installed and the rotation went through
HookErrorsNeverAbortWitness ==
    /\ Len(beforeHandlers["key_rotated"]) = 3
    /\ beforeHandlers["key_rotated"][2].throws
    /\ LET called == HookCalls(beforeHandlers["key_rotated"], "before", "key_rotated")
       IN trace = [i \in 1..Len(called) |-> [called[i] EXCEPT !.charm = 0]]
    /\ fideliusCharm = 1
    /\ pc = "idle"
    /\ mq = <<>>

\* ------------------------------------------------------------------------
\* Process: functions that run promises in a particular way
\* ------------------------------------------------------------------------
\* The i-th task's promise fulfils with Value(i) or rejects with Reason(i).
Value(i) == Num(i)
Reason(i) == [t |-> "error", n |-> i]
Fulfilled(value) == [settled |-> "fulfilled", res |-> value]
Rejected(reason) == [settled |-> "rejected", res |-> reason]

Min(a, b) == IF a < b THEN a ELSE b
Take(seq, k) == SubSeq(seq, 1, Min(k, Len(seq)))
Drop(seq, k) == SubSeq(seq, Min(k, Len(seq)) + 1, Len(seq))
Among(seq, x) == \E k \in DOMAIN seq : seq[k] = x

\* A call of a function of Process in a program that does nothing else
ProcessInit(frames) ==
    /\ data = <<>>
    /\ temp = <<>>
    /\ isPaused = FALSE
    /\ fideliusCharm = 0
    /\ defaultKeyRotationDuration = days(90)
    /\ rotatorTimer = {}
    /\ existingRotatorTimerObject = Undefined
    /\ beforeHandlers = [event \in Events |-> <<>>]
    /\ afterHandlers = [event \in Events |-> <<>>]
    /\ process \in frames
    /\ executor = NewExecutor
    /\ queue = NewQueue(1)
    /\ timers = {}
    /\ mq = <<>>
    /\ awaiting = {}
    /\ pc = "idle"
    /\ out = NoOut
    /\ trace = <<>>
    /\ calls = [writes |-> 0, reads |-> 0, enqueues |-> 0, periods |-> 0, encodes |-> 0]

\* ------------------------------------------------------------------------
\* Process.promiseInBatches(promises, batchSize, delay)
\* ------------------------------------------------------------------------
\* The arguments and locals at the call: n functions, none invoked yet
BatchesFrame(n, batchSize) ==
    [fn |-> "promiseInBatches", n |-> n, batchSize |-> batchSize,
     promisesCopy |-> [i \in 1..n |-> i], batch |-> <<>>, results |-> <<>>,
     status |-> [i \in 1..n |-> "idle"], rejection |-> Undefined, at |-> "start"]

\* One turn of the while loop up to its first await: the batch is spliced off
\* and every function in it is invoked; with nothing left the results are returned
batchLoop(S) ==
    LET P == S.process
        batch == Take(P.promisesCopy, P.batchSize)
    IN IF P.promisesCopy = <<>>
       THEN [S EXCEPT !.process.at = "returned", !.out = [op |-> "promiseInBatches"] @@ Fulfilled(Arr(P.results))]
       ELSE [S EXCEPT !.process.promisesCopy = Drop(@, P.batchSize),
                      !.process.batch = batch,
                      !.process.status = [i \in DOMAIN @ |-> IF Among(batch, i) THEN "running" ELSE @[i]],
                      !.process.rejection = Undefined,
                      !.process.at = "all"]

PromiseInBatches ==
    /\ process.fn = "promiseInBatches"
    /\ process.at = "start"
    /\ Becomes(batchLoop(Cur))

\* The promise a function of the batch returned settles
BatchTaskSettles(i, ok) ==
    /\ process.fn = "promiseInBatches"
    /\ i \in 1..process.n
    /\ process.status[i] = "running"
    /\ Becomes([Cur EXCEPT !.process.status[i] = IF ok THEN "resolved" ELSE "rejected",
                           !.process.rejection = IF ~ok /\ @.t = "undefined" /\ Among(process.batch, i)
                                                 THEN Reason(i) ELSE @])

\* Promise.all that takes the first promise to resolve for all of them
PromiseAllOfAny(P) ==
    IF P.rejection.t # "undefined" THEN "rejected"
    ELSE IF P.batch = <<>> \/ \E k \in DOMAIN P.batch : P.status[P.batch[k]] = "resolved" THEN "fulfilled"
    ELSE "pending"

\* Promise.all(batch.map(func => func())): rejected with the first rejection,
\* fulfilled when every promise is
PromiseAll(P) ==
    IF P.rejection.t # "undefined" THEN "rejected"
    ELSE IF \A k \in DOMAIN P.batch : P.status[P.batch[k]] = "resolved" THEN "fulfilled"
    ELSE "pending"

\* after await Promise.all: results.push(...batchResults), then the delay
BatchResolved ==
    /\ process.fn = "promiseInBatches"
    /\ process.at = "all"
    /\ PromiseAll(process) = "fulfilled"
    /\ Becomes([Cur EXCEPT !.process.results = @ \o [k \in DOMAIN process.batch |-> Value(process.batch[k])],
                           !.process.at = "delay",
                           !.timers = @ \cup {[kind |-> "delay"]}])

\* await Promise.all throws: the call rejects
BatchRejected ==
    /\ process.fn = "promiseInBatches"
    /\ process.at = "all"
    /\ PromiseAll(process) = "rejected"
    /\ Becomes([Cur EXCEPT !.process.at = "rejected", !.out = [op |-> "promiseInBatches"] @@ Rejected(process.rejection)])

\* setTimeout(resolve, delay) fires and the loop goes on
DelayTimeout ==
    /\ process.fn = "promiseInBatches"
    /\ process.at = "delay"
    /\ [kind |-> "delay"] \in timers
    /\ Becomes(batchLoop([Cur EXCEPT !.timers = @ \ {[kind |-> "delay"]}]))

BatchesInit == ProcessInit({BatchesFrame(n, batchSize) : n \in 0..MaxTasks, batchSize \in 0..MaxBatchSize})

BatchesNext ==
    \/ PromiseInBatches
    \/ \E i \in 1..MaxTasks, ok \in BOOLEAN : BatchTaskSettles(i, ok)
    \/ BatchResolved
    \/ BatchRejected
    \/ DelayTimeout

SpecBatches == BatchesInit /\ [][BatchesNext]_vars

\* C17: promiseInBatches never has more than batchSize functions started and
\* not yet settled, invokes no function of a later batch before every promise
\* of the batches before it has resolved, and returns the results in the
\* order of the input.
BatchOf(i) == (i - 1) \div process.batchSize
InBatches ==
    /\ Cardinality({i \in 1..process.n : process.status[i] = "running"}) <= process.batchSize
    /\ \A i, j \in 1..process.n :
          (process.status[i] # "idle" /\ BatchOf(j) < BatchOf(i)) => process.status[j] = "resolved"
    /\ process.at = "returned" =>
          /\ \A i \in 1..process.n : process.status[i] = "resolved"
          /\ out = [op |-> "promiseInBatches", settled |-> "fulfilled", res |-> Arr([i \in 1..process.n |-> Value(i)])]

\* Three tasks in batches of two: returned after the third, alone in its batch
InBatchesWitness ==
    /\ process.n = 3
    /\ process.batchSize = 2
    /\ process.batch = <<3>>
    /\ process.at = "returned"
    /\ out.res = Arr(<<Value(1), Value(2), Value(3)>>)

\* ------------------------------------------------------------------------
\* Process.promiseWithConstantConcurrency(promises, concurrency)
\* ------------------------------------------------------------------------
\* The arguments and locals at the call.  The promises run already and may
\* have settled before the call.  results is new Array(n).
ConcurrencyFrame(n, concurrency) ==
    [fn |-> "promiseWithConstantConcurrency", n |-> n, concurrency |-> concurrency,
     promises |-> [i \in 1..n |-> "pending"], promisesCopy |-> [i \in 1..n |-> i],
     pool |-> <<>>, results |-> [i \in 1..n |-> Undefined], raced |-> FALSE, at |-> "start"]

\* An index taken after promisesCopy.shift()
currentIndexAfterShift(P) == P.n - Len(P.promisesCopy) + 1

\* const currentIndex = promises.length - promisesCopy.length, counted from 0
currentIndex(P) == P.n - Len(P.promisesCopy)

\* pool.indexOf(promise), counted from 0, -1 when it is not there
poolIndexOf(pool, promise) ==
    IF \E k \in DOMAIN pool : pool[k].promise = promise
    THEN (CHOOSE k \in DOMAIN pool : pool[k].promise = promise /\ \A j \in 1..(k - 1) : pool[j].promise # promise) - 1
    ELSE -1

\* pool.splice(index, 1); a negative index counts from the end
Splice(pool, index) ==
    LET at == IF index < 0 THEN Len(pool) + index + 1 ELSE index + 1
    IN [k \in 1..(Len(pool) - (IF at \in DOMAIN pool THEN 1 ELSE 0)) |-> IF k < at THEN pool[k] ELSE pool[k + 1]]

removePromise(pool, promise) == Splice(pool, poolIndexOf(pool, promise))

\* One turn of the while loop up to await Promise.race(pool); with nothing
\* left and nothing running the results are returned
concurrencyLoop(S) ==
    LET P == S.process
        promise == Head(P.promisesCopy)
        promiseWithIndex == [promise |-> promise, currentIndex |-> currentIndex(P), stage |-> "then"]
    IN IF P.promisesCopy = <<>> /\ P.pool = <<>>
       THEN [S EXCEPT !.process.at = "returned", !.out = [op |-> "promiseWithConstantConcurrency"] @@ Fulfilled(Arr(P.results))]
       ELSE IF Len(P.pool) < P.concurrency /\ P.promisesCopy # <<>>
       THEN [S EXCEPT !.process.promisesCopy = Tail(@), !.process.pool = Append(@, promiseWithIndex),
                      !.process.raced = FALSE, !.process.at = "race"]
       ELSE [S EXCEPT !.process.raced = FALSE, !.process.at = "race"]

PromiseWithConstantConcurrency ==
    /\ process.fn = "promiseWithConstantConcurrency"
    /\ process.at = "start"
    /\ Becomes(concurrencyLoop(Cur))

\* One of the promises handed in settles
PromiseSettles(i, ok) ==
    /\ process.fn = "promiseWithConstantConcurrency"
    /\ i \in 1..process.n
    /\ process.promises[i] = "pending"
    /\ Becomes([Cur EXCEPT !.process.promises[i] = IF ok THEN "fulfilled" ELSE "rejected",
                           !.trace = Append(@, [at |-> "promise", ev |-> IF ok THEN "fulfilled" ELSE "rejected", id |-> i, cb |-> FALSE])])

\* promise.then(result => results[currentIndex] = result).catch(err => results[currentIndex] = err)
PoolThen(k) ==
    /\ process.fn = "promiseWithConstantConcurrency"
    /\ k \in DOMAIN process.pool
    /\ process.pool[k].stage = "then"
    /\ process.promises[process.pool[k].promise] # "pending"
    /\ LET i == process.pool[k].promise
           settled == IF process.promises[i] = "fulfilled" THEN Value(i) ELSE Reason(i)
       IN Becomes([Cur EXCEPT !.process.results = ArrayPut(@, process.pool[k].currentIndex + 1, settled),
                              !.process.pool[k].stage = "finally"])

\* .finally(() => removePromise(promiseWithIndex)); promiseWithIndex settles
\* and with it the race the loop awaits
PoolFinally(k) ==
    /\ process.fn = "promiseWithConstantConcurrency"
    /\ k \in DOMAIN process.pool
    /\ process.pool[k].stage = "finally"
    /\ Becomes([Cur EXCEPT !.process.pool = removePromise(@, process.pool[k].promise),
                           !.process.raced = TRUE])

\* after await Promise.race(pool)
RaceResume ==
    /\ process.fn = "promiseWithConstantConcurrency"
    /\ process.at = "race"
    /\ process.raced
    /\ Becomes(concurrencyLoop(Cur))

ConcurrencyInit ==
    ProcessInit({ConcurrencyFrame(n, concurrency) : n \in 0..MaxPromises, concurrency \in 0..MaxConcurrency})

ConcurrencyNext ==
    \/ PromiseWithConstantConcurrency
    \/ \E i \in 1..MaxPromises, ok \in BOOLEAN : PromiseSettles(i, ok)
    \/ \E k \in 1..MaxPromises : PoolThen(k)
    \/ \E k \in 1..MaxPromises : PoolFinally(k)
    \/ RaceResume

\* The promises handed in all settle, and the jobs of the event loop all run
SpecConcurrency == ConcurrencyInit /\ [][ConcurrencyNext]_vars /\ WF_vars(ConcurrencyNext)

\* C18: with a concurrency of at least 1 the call returns, and what it
\* returns has at every index the value its promise was fulfilled with or the
\* reason it was rejected with, in whatever order the promises settled.
Outcome(i) == IF process.promises[i] = "fulfilled" THEN Value(i) ELSE Reason(i)
ConstantConcurrency ==
    /\ [](process.concurrency >= 1 =>
            /\ process.at # "rejected"
            /\ process.at = "returned" =>
                  out = [op |-> "promiseWithConstantConcurrency", settled |-> "fulfilled",
                         res |-> Arr([i \in 1..process.n |-> Outcome(i)])])
    /\ (process.concurrency >= 1 => <>(process.at = "returned"))

\* Three promises, the last settles first and the second is rejected
ConstantConcurrencyWitness ==
    /\ process.n = 3
    /\ process.concurrency = 2
    /\ process.at = "returned"
    /\ Len(trace) = 3
    /\ trace[1].id = 3
    /\ out.res = Arr(<<Value(1), Reason(2), Value(3)>>)

\* ------------------------------------------------------------------------
\* Process.resolveFirstAndThenRest(promises, callback, errorCallback)
\* ------------------------------------------------------------------------
\* The arguments and locals at the call: n functions, none invoked yet, and
\* what the two callbacks have been called with
FirstRestFrame(n, callback, errorCallback) ==
    [fn |-> "resolveFirstAndThenRest", n |-> n, callback |-> callback, errorCallback |-> errorCallback,
     status |-> [i \in 1..n |-> "idle"], rejection |-> Undefined, rest |-> "none",
     callbackArgs |-> <<>>, errorCallbackArgs |-> <<>>, at |-> "start"]

\* assert(promises.length > 0, ...), then the first function is invoked and awaited
ResolveFirstAndThenRest ==
    /\ process.fn = "resolveFirstAndThenRest"
    /\ process.at = "start"
    /\ Becomes(IF process.n = 0
               THEN [Cur EXCEPT !.process.at = "rejected",
                                !.out = [op |-> "resolveFirstAndThenRest"] @@ Rejected([t |-> "error", assert |-> TRUE])]
               ELSE [Cur EXCEPT !.process.status[1] = "running", !.process.at = "first"])

\* The promise a function returned settles
RestTaskSettles(i, ok) ==
    /\ process.fn = "resolveFirstAndThenRest"
    /\ i \in 1..process.n
    /\ process.status[i] = "running"
    /\ Becomes([Cur EXCEPT !.process.status[i] = IF ok THEN "resolved" ELSE "rejected",
                           !.process.rejection = IF ~ok /\ i > 1 /\ @.t = "undefined" THEN Reason(i) ELSE @])

\* after await of the first promise: the other functions are invoked, their
\* promises are left to Promise.all, and the first result is returned
FirstResolved ==
    /\ process.fn = "resolveFirstAndThenRest"
    /\ process.at = "first"
    /\ process.status[1] = "resolved"
    /\ Becomes([Cur EXCEPT !.process.status = [i \in DOMAIN @ |-> IF i > 1 THEN "running" ELSE @[i]],
                           !.process.rest = IF process.n > 1 THEN "all" ELSE "none",
                           !.process.at = "returned",
                           !.out = [op |-> "resolveFirstAndThenRest"] @@ Fulfilled(Value(1))])

\* A catch block that hands the error to errorCallback and throws it as well
catchFirstAndRethrow(S, err) ==
    [S EXCEPT !.process.errorCallbackArgs = IF S.process.errorCallback = "given" THEN Append(@, err) ELSE @,
              !.process.at = "rejected",
              !.out = [op |-> "resolveFirstAndThenRest"] @@ Rejected(err)]

\* catch (err): await errorCallback(err) and return, or throw err
catchFirst(S, err) ==
    IF S.process.errorCallback = "given"
    THEN [S EXCEPT !.process.errorCallbackArgs = Append(@, err),
                   !.process.at = "returned",
                   !.out = [op |-> "resolveFirstAndThenRest"] @@ Fulfilled(Undefined)]
    ELSE [S EXCEPT !.process.at = "rejected",
                   !.out = [op |-> "resolveFirstAndThenRest"] @@ Rejected(err)]

\* await of the first promise throws
FirstRejected ==
    /\ process.fn = "resolveFirstAndThenRest"
    /\ process.at = "first"
    /\ process.status[1] = "rejected"
    /\ Becomes(catchFirst(Cur, Reason(1)))

\* Promise.all(...).then(results => callback && callback([firstResult, ...results]))
RestResolved ==
    /\ process.fn = "resolveFirstAndThenRest"
    /\ process.rest = "all"
    /\ process.rejection.t = "undefined"
    /\ \A i \in 2..process.n : process.status[i] = "resolved"
    /\ LET results == [k \in 1..(process.n - 1) |-> Value(k + 1)]
       IN Becomes([Cur EXCEPT !.process.callbackArgs = IF process.callback = "given"
                                                        THEN Append(@, Arr(<<Value(1)>> \o results)) ELSE @,
                              !.process.rest = "done"])

\* Promise.all(...).catch(err => { if (errorCallback) errorCallback(err) })
RestRejected ==
    /\ process.fn = "resolveFirstAndThenRest"
    /\ process.rest = "all"
    /\ process.rejection.t # "undefined"
    /\ Becomes([Cur EXCEPT !.process.errorCallbackArgs = IF process.errorCallback = "given"
                                                         THEN Append(@, process.rejection) ELSE @,
                           !.process.rest = "done"])

GivenOrNot == {"none", "given"}
FirstRestInit ==
    ProcessInit({FirstRestFrame(n, callback, errorCallback) :
                    n \in 0..MaxTasks, callback \in GivenOrNot, errorCallback \in GivenOrNot})

FirstRestNext ==
    \/ ResolveFirstAndThenRest
    \/ \E i \in 1..MaxTasks, ok \in BOOLEAN : RestTaskSettles(i, ok)
    \/ FirstResolved
    \/ FirstRejected
    \/ RestResolved
    \/ RestRejected

SpecFirstRest == FirstRestInit /\ [][FirstRestNext]_vars

\* C19: when the first task rejects, no other task function is ever invoked
\* and callback is never called; without errorCallback the call rejects with
\* the reason of the first task, with errorCallback that is called with the
\* reason, once, and the call does not reject.
FirstFailed == process.n >= 1 /\ process.status[1] = "rejected"
FirstSucceeds ==
    (process.n >= 1 /\ process.status[1] = "resolved" /\ process.at # "first") =>
        /\ out = [op |-> "resolveFirstAndThenRest", settled |-> "fulfilled", res |-> Value(1)]
        /\ process.callbackArgs # <<>> =>
              /\ \A i \in 2..process.n : process.status[i] = "resolved"
              /\ process.callbackArgs = <<Arr([k \in 1..(process.n - 1) |-> Value(k + 1)])>>
        /\ (process.rest = "done" /\ process.rejection.t # "undefined") =>
              /\ process.callbackArgs = <<>>
              /\ process.errorCallback = "given" => process.errorCallbackArgs = <<process.rejection>>

\* ------------------------------------------------------------------------
\* Executor: resolvesAfterExecutionComplete(callback) and execute(data)
\* ------------------------------------------------------------------------
NewPromise(executes) == [settled |-> "pending", res |-> Undefined, failed |-> FALSE, registered |-> executes]
ExecutorException(code) == [t |-> "ExecutorException", code |-> code]
ExecutionData == {Num(1), Num(2)}

\* resolvesAfterExecutionComplete(callback): a new promise, and a listener on
\* the executor's event that resolves it.  The k-th listener belongs to the
\* k-th promise.  The try around the registration has nothing to catch.
ResolvesAfterExecutionComplete ==
    /\ Idle
    /\ Len(executor.promises) < MaxListeners
    /\ Becomes([Quiet(Cur) EXCEPT !.executor.promises = Append(@, NewPromise(executor.executes))])

\* execute(data): emit calls every listener; each executionFunction calls the
\* callback with the data and awaits what it returns
ExecutorExecute(datum) ==
    /\ Idle
    /\ executor.executes < MaxExecutes
    /\ LET no == executor.executes + 1
       IN Becomes([Cur EXCEPT
                      !.executor.executes = no,
                      !.executor.executions = @ \cup {[promise |-> k, data |-> datum, no |-> no] : k \in DOMAIN executor.promises},
                      !.out = [op |-> "execute", res |-> Undefined]])

\* resolve(anyresult): settles the promise unless it is settled already
Resolve(promise, value) ==
    IF promise.settled = "pending" THEN [promise EXCEPT !.settled = "fulfilled", !.res = value] ELSE promise

\* executionFunction after `await callback(this.id, new Date(), data)`: the
\* callback (which hands back its data) has finished and resolve is called, or
\* it threw or rejected and executionFunction's own promise rejects, which
\* nothing handles
ExecutionCompletes(execution, ok) ==
    /\ execution \in executor.executions
    /\ Becomes([Cur EXCEPT
                  !.executor.executions = @ \ {execution},
                  !.executor.promises[execution.promise] = IF ok THEN Resolve(@, execution.data) ELSE [@ EXCEPT !.failed = TRUE],
                  !.out = IF ok THEN NoOut ELSE [op |-> "unhandledRejection", promise |-> execution.promise]])

Executions == {[promise |-> k, data |-> datum, no |-> no] : k \in 1..MaxListeners, datum \in ExecutionData, no \in 1..MaxExecutes}

ExecutorInit == ProcessInit({NoProcess})

ExecutorNext ==
    \/ ResolvesAfterExecutionComplete
    \/ \E datum \in ExecutionData : ExecutorExecute(datum)
    \/ \E execution \in Executions, ok \in BOOLEAN : ExecutionCompletes(execution, ok)

SpecExecutor == ExecutorInit /\ [][ExecutorNext]_vars

\* C21: the promise of resolvesAfterExecutionComplete is pending until an
\* execute() after it, is fulfilled with the callback's result, and when the
\* callback threw or rejected (and no other run of it resolved the promise)
\* it is rejected with an ExecutorException.
ResolvesAfterExecution ==
    \A k \in DOMAIN executor.promises :
        LET promise == executor.promises[k]
        IN /\ promise.settled # "pending" => executor.executes > promise.registered
           /\ promise.settled = "fulfilled" => promise.res \in ExecutionData
           /\ (promise.failed /\ promise.settled # "fulfilled") =>
                 /\ promise.settled = "rejected"
                 /\ promise.res.t = "ExecutorException"

\* ------------------------------------------------------------------------
\* Rotation of a cache that holds obfuscated and plain entries: writes of
\* numbers and strings before the first rotation, a rotation only once the
\* writes have drained and the previous rotation is over
\* ------------------------------------------------------------------------
MixedRotationNext ==
    \/ \E key \in ReadKeys, value \in CacheValues, obfuscate \in BOOLEAN :
          fideliusCharm = 0 /\ WriteCall(key, value, Never, obfuscate)
    \/ WriteResume
    \/ DrainResume
    \/ Quiescent /\ RotateKey
    \/ Quiescent /\ RotatorTimeout
    \/ InstallKey
    \/ EmitResume
    \/ RotatedDestroy
    \/ RotatedDestroyClear
    \/ RotatedDestroyResume
    \/ RotatedEncode
    \/ RotatedSwap
    \/ RotatedResume
    \/ RotatedClear

SpecMixedRotation == Init /\ [][MixedRotationNext]_vars

\* C22: a rotation keeps every entry, obfuscated or not: the keys of the map
\* go through the snapshot and back, and once the rotation is over each entry
\* reads as the value that was written and has the flag, type tag, checksum
\* and expiry it was written with.
HashedKeysOf(map) == {map[i].hKey : i \in 1..Len(map)}
ReadsAsWritten(entry) ==
    LET res == IF entry.isObfusacated THEN decode(entry.value, fideliusCharm) ELSE entry.value
    IN /\ ~IsThrown(res)
       /\ res = entry.written
       /\ entry.isObfusacated = IsEncoded(entry.value)
       /\ entry.type = TypeTag(entry.written)
       /\ entry.expiresOn = Never
RotationKeepsEveryEntry ==
    /\ []((Quiescent /\ fideliusCharm > 0) => \A i \in 1..Len(data) : ReadsAsWritten(data[i]))
    /\ [][/\ (RotateKey \/ RotatorTimeout) => HashedKeysOf(temp') = HashedKeysOf(data)
          /\ RotatedEncode => HashedKeysOf(temp') = HashedKeysOf(temp)
          /\ RotatedSwap => HashedKeysOf(data') = HashedKeysOf(temp)]_vars

\* C23: rotateKey() and encode() return only when their event is through:
\* whenever no call is running, no emitter is waiting to emit its event and
\* run its listeners and after handlers.
EmitterPending == \E i \in 1..Len(mq) : mq[i].kind \in {"emit", "obfuscated"}
RotationIsSynchronous == Idle => ~EmitterPending

\* ------------------------------------------------------------------------
\* Handlers around key_rotated on a cache that holds obfuscated entries
\* ------------------------------------------------------------------------
HookOrderNext ==
    \/ \E throws \in BOOLEAN : Before("key_rotated", throws)
    \/ \E throws \in BOOLEAN : After("key_rotated", throws)
    \/ \E key \in ReadKeys : fideliusCharm = 0 /\ WriteCall(key, Num(7), Never, TRUE)
    \/ WriteResume
    \/ DrainResume
    \/ RotateKey
    \/ RotatorTimeout
    \/ InstallKey
    \/ EmitResume
    \/ RotatedDestroy
    \/ RotatedDestroyClear
    \/ RotatedDestroyResume
    \/ RotatedEncode
    \/ RotatedSwap
    \/ RotatedResume
    \/ RotatedClear

SpecHookOrder == Init /\ [][HookOrderNext]_vars

\* C24: the before handlers of key_rotated run in the order of registration
\* while the old key is still the active one, and the snapshot they take is
\* decoded with it; installing the key runs no handler; the listener and the
\* after handlers run with the new key installed, and the listener encodes
\* the snapshot with it.
KeyRotatedCalls(handlers, phase) ==
    LET hooks == SelectSeq(handlers, IsHook)
    IN [i \in 1..Len(hooks) |-> [at |-> phase, ev |-> "key_rotated", id |-> hooks[i].id, cb |-> FALSE, charm |-> fideliusCharm']]
Ascending(calls_) == \A i, j \in 1..Len(calls_) : i < j => calls_[i].id < calls_[j].id
HookProtocolOrder ==
    [][/\ (RotateKey \/ RotatorTimeout) =>
            /\ fideliusCharm' = fideliusCharm
            /\ trace' = trace \o KeyRotatedCalls(beforeHandlers["key_rotated"], "before")
            /\ Ascending(KeyRotatedCalls(beforeHandlers["key_rotated"], "before"))
            /\ temp' = DecodedUntilThrow(data, fideliusCharm)
       /\ InstallKey =>
            /\ fideliusCharm' = fideliusCharm + 1
            /\ trace' = trace
            /\ temp' = temp
       /\ (EmitResume \/ RotatedEncode \/ RotatedClear) =>
            /\ fideliusCharm >= 1
            /\ fideliusCharm' = fideliusCharm
       /\ EmitResume => trace' = trace
       /\ RotatedEncode =>
            \A i \in 1..Len(temp') : IsEncoded(temp'[i].value) /\ temp'[i].value.enc.key = fideliusCharm
       /\ RotatedClear =>
            /\ trace' = trace \o KeyRotatedCalls(afterHandlers["key_rotated"], "after")
            /\ Ascending(KeyRotatedCalls(afterHandlers["key_rotated"], "after"))]_vars

\* A rotation of a cache with an entry went through with a handler before and
\* a handler after key_rotated: the first was called under key 0, the second
\* under key 1, and the entry is ciphertext under key 1
HookProtocolOrderWitness ==
    /\ Len(trace) >= 4
    /\ \E i, j \in 1..Len(trace) :
          /\ i < j
          /\ trace[i].at = "before" /\ trace[i].charm = 0
          /\ trace[j].at = "after" /\ trace[j].charm = 1
    /\ fideliusCharm = 1
    /\ Quiescent
    /\ Len(data) = 1
    /\ IsEncoded(data[1].value)
    /\ data[1].value.enc.key = 1

\* C25: inside #handleKeyRotated the flag is set from the statement that
\* clears the live map up to the statement that swaps the encoded snapshot in
MapClearedNotSwapped == pc \in {"rotated:destroy:resume", "rotated:encode", "rotated:swap"}
PauseWindow == MapClearedNotSwapped => isPaused

\* ------------------------------------------------------------------------
\* The pause gate: reads and writes among destroy() calls and rotations
\* ------------------------------------------------------------------------
PauseGateNext ==
    \/ \E key \in ReadKeys : WriteCall(key, Num(7), Never, TRUE)
    \/ WriteResume
    \/ DrainResume
    \/ \E key \in ReadKeys : ReadCall(key)
    \/ ReadResume
    \/ Destroy
    \/ RotateKey
    \/ InstallKey
    \/ EmitResume
    \/ RotatedDestroy
    \/ RotatedDestroyClear
    \/ RotatedDestroyResume
    \/ RotatedEncode
    \/ RotatedSwap
    \/ RotatedResume
    \/ RotatedClear

SpecPauseGate == Init /\ [][PauseGateNext]_vars /\ WF_vars(PauseGateNext)

\* C26: with no destroy() and no rotation handler running the flag is clear,
\* so no call meets the flag set and sleeps at the gate, and every read and
\* write that has reached the gate gets past it.
AtTheGate ==
    \/ \E i \in 1..Len(mq) : mq[i].kind \in {"read", "write"}
    \/ \E timer \in timers : timer.kind = "poll"
PauseGateOpens ==
    /\ [](Idle => ~isPaused)
    /\ [](\A timer \in timers : timer.kind # "poll")
    /\ (AtTheGate ~> ~AtTheGate)

\* After a rotation and a destroy() a read is at the gate, the flag clear
PauseGateOpensWitness ==
    /\ fideliusCharm >= 1
    /\ out.op = "destroy"
    /\ Idle
    /\ ~isPaused
    /\ \E i \in 1..Len(mq) : mq[i].kind = "read"

\* ------------------------------------------------------------------------
\* A ProcessQueue whose work functions may enqueue from inside
\* ------------------------------------------------------------------------
NestingFunctions == {[kind |-> "nest", async |-> FALSE, fails |-> FALSE]}

SingleLoopNext ==
    \/ \E function \in WorkFunctions \cup NestingFunctions, callback \in Callbacks : Enqueue(function, callback)
    \/ Execute
    \/ \E loop \in awaiting : Settle(loop)
    \/ DrainResume

SpecSingleLoop == QueueInit /\ [][SingleLoopNext]_vars

\* C27: at most one drain loop is under way (suspended at an await or about
\* to resume), and only with the flag set; at most one work function or
\* callback has started and not yet returned; an enqueue made while the flag
\* is set, from a caller or from inside a work function, adds its item at the
\* rear and starts nothing.
ActiveLoops == Cardinality(awaiting) + Cardinality({i \in 1..Len(mq) : mq[i].kind = "drain"})
Started == Cardinality({i \in 1..Len(trace) : trace[i].ev = "start"})
Returned == Cardinality({i \in 1..Len(trace) : trace[i].ev \in {"ok", "err"}})
NestedAccepted == Cardinality({i \in 1..Len(trace) : trace[i].at = "nested"})
SingleDrainLoop ==
    /\ [](/\ ActiveLoops <= 1
          /\ ActiveLoops = 1 => queue.isExecuting
          /\ Started - Returned <= 1
          /\ Started - Returned = 1 => ActiveLoops = 1
          /\ \A i \in 1..Len(trace) : trace[i].at = "nested" =>
                (i > 1 /\ trace[i - 1].ev = "start" /\ i < Len(trace) /\ trace[i + 1] = [trace[i - 1] EXCEPT !.ev = "ok"]))
    /\ [][/\ (queue.isExecuting /\ calls.enqueues' = calls.enqueues + 1) =>
                /\ queue'.size = queue.size + 1
                /\ trace' = trace /\ awaiting' = awaiting /\ mq' = mq
                /\ queue'.isExecuting
          /\ NestedAccepted' > NestedAccepted => queue'.size >= 1]_vars

\* A loop is suspended in a work function, a nested enqueue was accepted
\* earlier and a further item is waiting behind
SingleDrainLoopWitness ==
    /\ Cardinality(awaiting) = 1
    /\ queue.isExecuting
    /\ queue.size >= 1
    /\ NestedAccepted >= 1
    /\ calls.enqueues = MaxEnqueues

\* ------------------------------------------------------------------------
\* A ProcessQueue whose work functions and callbacks all end without error,
\* each of them in the end
\* ------------------------------------------------------------------------
GoodFunctions == {function \in WorkFunctions \cup NestingFunctions : ~function.fails}
GoodCallbacks == {callback \in Callbacks : callback.kind = "none" \/ ~callback.fails}

DrainNext ==
    \/ \E function \in GoodFunctions, callback \in GoodCallbacks : Enqueue(function, callback)
    \/ Execute
    \/ \E loop \in awaiting : Settle(loop)
    \/ DrainResume

\* A resumed loop runs before any later caller step piles up for ever, and
\* every promise a loop awaits settles
SpecDrain ==
    /\ QueueInit
    /\ [][DrainNext]_vars
    /\ WF_vars(DrainResume)
    /\ WF_vars(\E loop \in awaiting : Settle(loop))

\* C28: no accepted item starts twice; with no loop under way nothing is
\* queued; in the end the queue is empty, the flag clear, and every item
\* accepted, from a caller or from inside a work function, has run once and
\* returned.
AcceptedItems == 1..calls.enqueues \cup {trace[i].id : i \in {j \in 1..Len(trace) : trace[j].at = "nested"}}
Runs(id, ev) == Cardinality({i \in 1..Len(trace) : trace[i].at = "item" /\ trace[i].id = id /\ trace[i].ev = ev})
DrainLiveness ==
    /\ [](\A id \in 1..(2 * MaxEnqueues) : Runs(id, "start") <= 1 /\ (Runs(id, "start") = 1 => id \in AcceptedItems))
    /\ [](~queue.isExecuting => isEmpty(queue))
    /\ <>[](/\ isEmpty(queue)
            /\ ~queue.isExecuting
            /\ \A id \in AcceptedItems : Runs(id, "start") = 1 /\ Runs(id, "ok") = 1)

\* All enqueues were accepted, one more from inside a work function, and
\* everything has run
DrainLivenessWitness ==
    /\ calls.enqueues = MaxEnqueues
    /\ NestedAccepted >= 1
    /\ isEmpty(queue)
    /\ ~queue.isExecuting
    /\ mq = <<>>
    /\ awaiting = {}
    /\ \A id \in AcceptedItems : Runs(id, "ok") = 1
    /\ \E i \in 1..Len(trace) : trace[i].at = "cb"

\* C29: as long as no work function has returned, at most PQCapacity
\* enqueue calls were accepted, and after PQCapacity accepted calls the queue
\* is full
NoItemCompleted == \A i \in 1..Len(trace) : ~(trace[i].at = "item" /\ trace[i].ev \in {"ok", "err"})
SerializerCapacity ==
    NoItemCompleted => (calls.enqueues <= PQCapacity /\ (calls.enqueues = PQCapacity => isFull(queue)))

\* C30: a call of enqueue throws only 'Queue is full', and only on a full
\* queue; whatever the work function and the callback do, also when the loop
\* starts inside the call and calls the function at once, the call returns
\* normally.
EnqueueReturnsNormally ==
    [][\A function \in WorkFunctions \cup NestingFunctions, callback \in Callbacks :
          Enqueue(function, callback) =>
              IF isFull(queue) THEN out' = [op |-> "enqueue", res |-> Thrown("Queue is full")]
              ELSE out' = NoOut /\ calls.enqueues' = calls.enqueues + 1]_vars

\* A failing work function has been called inside the enqueue call that
\* started the loop
EnqueueReturnsNormallyWitness ==
    /\ Len(trace) = 2
    /\ trace[1].ev = "start" /\ trace[2].ev = "err"
    /\ calls.enqueues = 1
    /\ out = NoOut
    /\ ~queue.isExecuting

\* C31: a queued write that meets an entry stored under another key of the
\* same hashed key leaves that entry as it is.
FirstWriterWins ==
    [][\A fn \in NextWrites :
          (StartedWrite(fn) /\ Collides(fn)) =>
              (MapHas(data', fn.hKey) /\ MapGet(data', fn.hKey) = MapGet(data, fn.hKey))]_vars

\* C32: a timer set by an earlier write that fires while the timer of a later
\* write to the same hashed key is still pending leaves the entry, which has
\* its own expiry ahead, in the map.
StaleTimersAreHarmless ==
    [][\A timer \in timers :
          (/\ timer.kind = "ttl"
           /\ Timeout(timer)
           /\ MapHas(data, timer.hKey)
           /\ MapGet(data, timer.hKey).expiresOn # Never
           /\ \E later \in timers : later.kind = "ttl" /\ later.hKey = timer.hKey /\ later.id > timer.id)
              => (MapHas(data', timer.hKey) /\ MapGet(data', timer.hKey) = MapGet(data, timer.hKey))]_vars

\* ------------------------------------------------------------------------
\* Writes of a value that encodes and of one whose encoding fails
\* ------------------------------------------------------------------------
ObfuscationValues == {Num(7), Circular}

ObfuscationNext ==
    \/ \E key \in ReadKeys, value \in ObfuscationValues, obfuscate \in BOOLEAN : WriteCall(key, value, Never, obfuscate)
    \/ WriteResume
    \/ \E key \in ReadKeys : ReadCall(key)
    \/ ReadResume
    \/ DrainResume

SpecObfuscation == Init /\ [][ObfuscationNext]_vars

\* C33: an entry stored with isObfusacated set holds the text
\* iv:ciphertext:type, and a write whose encoding failed has thrown
\* UNABLE_TO_OBFUSCATE and stored nothing.
ObfuscationFailureSurfaced ==
    \A i \in 1..Len(data) : data[i].isObfusacated => IsEncoded(data[i].value)

\* ------------------------------------------------------------------------
\* setUnboundedTimeout(callback, delay), timer by timer.  Each call of the
\* function is a level with its own timeoutId and clearNextTimeout; level
\* k + 1 is the call made by the timer callback of level k.
\* ------------------------------------------------------------------------
MaxClears == 2

Plus(a, b) ==
    IF a.lo >= maxDelay - b.lo THEN Millis(a.hi + b.hi + 1, a.lo - (maxDelay - b.lo))
    ELSE Millis(a.hi + b.hi, a.lo + b.lo)
\* a - b for a >= b
Minus(a, b) ==
    IF a.lo >= b.lo THEN Millis(a.hi - b.hi, a.lo - b.lo)
    ELSE Millis(a.hi - b.hi - 1, maxDelay - (b.lo - a.lo))

\* delay > maxDelay
ExceedsMaxDelay(delay) == GreaterThan(delay, Millis(1, 0))

\* A chain whose timers wait for the whole delay each
SubDelayUnchained(delay) == delay

\* The delay handed to setTimeout
SubDelay(delay) == IF ExceedsMaxDelay(delay) THEN Millis(1, 0) ELSE delay

\* The locals of one call that did not throw
Level(delay) == [delay |-> delay, wait |-> SubDelay(delay), timeoutId |-> "pending", clearNextTimeout |-> FALSE]

\* A returned function that clears its own timer only
ClearOwnTimeout(levels, k) ==
    [levels EXCEPT ![k].timeoutId = IF @ = "pending" THEN "cleared" ELSE @]

\* The function returned by the call of level k: clearTimeout(timeoutId);
\* if (clearNextTimeout) clearNextTimeout().  The calls go from level to
\* level up to the first one whose clearNextTimeout is still null.
ClearFrom(levels, k) ==
    LET unset == {j \in k..Len(levels) : ~levels[j].clearNextTimeout}
        last == IF unset = {} THEN Len(levels) ELSE CHOOSE j \in unset : \A i \in unset : j <= i
    IN [j \in 1..Len(levels) |->
          IF j >= k /\ j <= last /\ levels[j].timeoutId = "pending"
          THEN [levels[j] EXCEPT !.timeoutId = "cleared"]
          ELSE levels[j]]

UnboundedFrame(delay) ==
    [fn |-> "setUnboundedTimeout", delay |-> delay, at |-> "start", levels |-> <<>>,
     elapsed |-> Millis(0, 0), runs |-> 0, clears |-> 0, runsAtClear |-> 0]

\* 3 s, the platform maximum, one and several milliseconds above it, 90 days,
\* the limit of 1e12 ms, and two delays above the limit
TimeoutDelays ==
    {Millis(0, 3000), Millis(1, 0), Millis(1, 1), Millis(2, 5), days(90).ms, maxTotalDelay,
     Plus(maxTotalDelay, Millis(0, 1)), days(11575).ms}

\* the caller calls setUnboundedTimeout(callback, delay)
UnboundedCall ==
    /\ process.fn = "setUnboundedTimeout"
    /\ process.at = "start"
    /\ Becomes([Cur EXCEPT !.process =
          IF ExceedsMaxTotalDelay(process.delay) THEN [@ EXCEPT !.at = "thrown"]
          ELSE [@ EXCEPT !.at = "set", !.levels = <<Level(process.delay)>>]])

\* the timer of the innermost call fires, the delay of that call above
\* maxDelay: clearNextTimeout = setUnboundedTimeout(callback, delay - maxDelay)
UnboundedSubTimeout ==
    /\ process.fn = "setUnboundedTimeout"
    /\ process.at = "set"
    /\ LET k == Len(process.levels)
           level == process.levels[k]
       IN /\ level.timeoutId = "pending"
          /\ ExceedsMaxDelay(level.delay)
          /\ Becomes([Cur EXCEPT !.process =
                [@ EXCEPT !.levels = Append([@ EXCEPT ![k].timeoutId = "fired", ![k].clearNextTimeout = TRUE],
                                            Level(Minus(level.delay, Millis(1, 0)))),
                          !.elapsed = Plus(@, level.wait)]])

\* the timer of the innermost call fires, the delay of that call at most
\* maxDelay: await callback()
UnboundedTimeout ==
    /\ process.fn = "setUnboundedTimeout"
    /\ process.at = "set"
    /\ LET k == Len(process.levels)
           level == process.levels[k]
       IN /\ level.timeoutId = "pending"
          /\ ~ExceedsMaxDelay(level.delay)
          /\ Becomes([Cur EXCEPT !.process =
                [@ EXCEPT !.levels[k].timeoutId = "fired",
                          !.elapsed = Plus(@, level.wait),
                          !.runs = @ + 1]])

\* the caller calls the function that setUnboundedTimeout returned
UnboundedClear ==
    /\ process.fn = "setUnboundedTimeout"
    /\ process.at = "set"
    /\ process.clears < MaxClears
    /\ Becomes([Cur EXCEPT !.process =
          [@ EXCEPT !.levels = ClearFrom(@, 1),
                    !.clears = @ + 1,
                    !.runsAtClear = IF process.clears = 0 THEN process.runs ELSE @]])

UnboundedInit == ProcessInit({UnboundedFrame(delay) : delay \in TimeoutDelays})

UnboundedNext ==
    \/ UnboundedCall
    \/ UnboundedSubTimeout
    \/ UnboundedTimeout
    \/ UnboundedClear

\* A timer that is pending fires in the end
SpecUnboundedTimeout ==
    /\ UnboundedInit
    /\ [][UnboundedNext]_vars
    /\ WF_vars(UnboundedSubTimeout)
    /\ WF_vars(UnboundedTimeout)

\* C34: a call with a delay above 1e12 ms throws and sets no timer; any other
\* call sets timers that wait for at most maxDelay each; the callback runs at
\* most once, and only when the waits add up to the delay; unless the timer
\* is cleared the callback runs.
FiresOnceAfterFullDelay ==
    /\ [](/\ process.at = "thrown" <=> (process.at # "start" /\ GreaterThan(process.delay, maxTotalDelay))
          /\ process.at = "thrown" => process.levels = <<>>
          /\ \A k \in 1..Len(process.levels) : ~GreaterThan(process.levels[k].wait, Millis(1, 0))
          /\ process.runs <= 1
          /\ process.runs = 1 => process.elapsed = process.delay)
    /\ [](process.at = "set" => <>(process.runs = 1 \/ process.clears > 0))

\* The callback has run after a delay of 90 days, waited for in four timers
FiresOnceAfterFullDelayWitness ==
    /\ process.delay = days(90).ms
    /\ process.runs = 1
    /\ Len(process.levels) = 4
    /\ process.clears = 0

\* C35: once the returned function was called with the callback not yet run,
\* no timer of the chain is pending and the callback never runs.
ClearedNeverRuns ==
    (process.clears > 0 /\ process.runsAtClear = 0) =>
        /\ process.runs = 0
        /\ \A k \in 1..Len(process.levels) : process.levels[k].timeoutId # "pending"

\* The returned function was called while the third timer of the chain was
\* pending
ClearedNeverRunsWitness ==
    /\ process.clears = 1
    /\ Len(process.levels) = 3
    /\ process.levels[3].timeoutId = "cleared"
    /\ process.levels[1].timeoutId = "fired"
    /\ process.runs = 0

\* ------------------------------------------------------------------------
\* Obfuscated writes around rotations, the i-th of them writing the number i,
\* to "a" and "b" in turn
\* ------------------------------------------------------------------------
KeyOf(i) == IF i % 2 = 1 THEN KeyA ELSE KeyB

InFlightNext ==
    \/ WriteCall(KeyOf(calls.writes + 1), Num(calls.writes + 1), Never, TRUE)
    \/ WriteResume
    \/ DrainResume
    \/ RotateKey
    \/ RotatorTimeout
    \/ InstallKey
    \/ EmitResume
    \/ RotatedDestroy
    \/ RotatedDestroyClear
    \/ RotatedDestroyResume
    \/ RotatedEncode
    \/ RotatedSwap
    \/ RotatedResume
    \/ RotatedClear

SpecInFlight == Init /\ [][InFlightNext]_vars

\* C36: with no rotation under way (none between its before handlers and the
\* end of its listener), every entry stored with isObfusacated set is
\* ciphertext under the active key; and an entry that the drain loop stored
\* as ciphertext under the key before (a write encoded before rotateKey and
\* applied after the key was replaced) is part of what the listener rebuilds
\* the map from.
RotationInProgress ==
    \/ pc # "idle"
    \/ temp # <<>>
    \/ \E i \in 1..Len(mq) : mq[i].kind = "emit"
InFlightWritesStayReadable ==
    /\ [](~RotationInProgress =>
            \A i \in 1..Len(data) :
                data[i].isObfusacated =>
                    /\ IsEncoded(data[i].value)
                    /\ data[i].value.enc.key = fideliusCharm
                    /\ decode(data[i].value, fideliusCharm) = data[i].written)
    /\ [][RotatedDestroyClear =>
            \A i \in 1..Len(data) :
                (IsEncoded(data[i].value) /\ data[i].value.enc.key < fideliusCharm) =>
                    \E j \in 1..Len(temp) : temp[j].hKey = data[i].hKey /\ temp[j].written = data[i].written]_vars

\* C37: when the listener is about to clear the map, every entry of the map
\* is in the snapshot it rebuilds the map from, with the value written: what
\* the drain loop stored since the snapshot is not lost.
NoAppliedWriteLost ==
    pc = "rotated:destroy:clear" =>
        \A i \in 1..Len(data) :
            \E j \in 1..Len(temp) : temp[j].hKey = data[i].hKey /\ temp[j].written = data[i].written

\* C38: has(k) holds only when the entry at the hashed key of k was written
\* under k itself, that is, carries the checksum of k.
KeyIsolationOnLookup ==
    \A key \in Keys :
        Has(key) => MapGet(data, createHashKey(key)).checksum = createCheckSum(key)

\* C39: destroy() leaves the map empty, and with no write submitted since
\* (out still shows the destroy) neither a write that was waiting at the gate
\* nor the drain loop resuming on the queued writes stores an entry.
DestroyIsFullReset ==
    [][/\ Destroy => data' = <<>>
       /\ (out.op = "destroy" /\ (DrainResume \/ WriteResume)) => data' = <<>>]_vars
====
